---- MODULE Spec2Model ----
(***************************************************************************)
(* Discussion synchronisation engine of gl.py: the text codec              *)
(* (show_discussion / metadata_header / parse_metadata_header /            *)
(* submit_discussion), the fetch path with its three-way merge, and the    *)
(* submit path (cmd_submit).                                               *)
(*                                                                         *)
(* Text is modelled character by character: a Python str is a sequence of  *)
(* one-character strings, so that every regular expression, split, strip   *)
(* and format of the source is computed and not assumed.                   *)
(***************************************************************************)
EXTENDS Integers, Sequences, FiniteSets, TLC

VARIABLES
    GITHUB,     \* gl.py:83   the dialect, fixed for a run
    DRY_RUN,    \* gl.py:40   dry-run mode, fixed for a run
    what,       \* "issues" or "merge_requests": what the modelled item is
    remote,     \* the item on the server: [thing, discussions, nextNote, nextThread]
    thing,      \* the item's entry in issues.json / merge_requests.json
    snapshot,   \* <item dir>/discussions.json: Absent or Some(discussions)
    files,      \* the .gl files of the item directory: name -> Absent or Some(text)
    log,        \* the mutation requests issued by the last cmd_submit, in order
    outcome,    \* what the last command did (flags, error, merge inputs)
    edits,      \* the lines the user typed and has not yet submitted
    steps,      \* how many submits, typed lines, remote changes and drafts there were
    listed,     \* whether the cached list of open items holds the item's entry
    repository, \* gl.py:84  THE_REPOSITORY: what git says of the reviewed commit and file
    drafts      \* the review drafts cmd_discuss wrote that are not yet submitted

vars == <<GITHUB, DRY_RUN, what, remote, thing, snapshot, files, log, outcome, edits, steps,
          listed, repository, drafts>>

\* ------------------------------------------------------------------------
\* Optional values: a missing key / None is <<>>, a present value v is <<v>>.
\* ------------------------------------------------------------------------
Absent == <<>>

Some(v) == <<v>>

\* ------------------------------------------------------------------------
\* Characters and Python str primitives
\* ------------------------------------------------------------------------
\* gl.py:42 MARKER is the single character U+1144D; "*" stands for it.
MARKER == <<"*">>

NL == "\n"

CR == "\r"

TAB == "\t"

Digits == {"0", "1", "2", "3", "4", "5", "6", "7", "8", "9"}

HexDigits == Digits \cup {"a", "b", "c", "d", "e", "f"}

Letters == {"a", "b", "c", "d", "e", "f", "g", "h", "i", "j", "k", "l", "m",
            "n", "o", "p", "q", "r", "s", "t", "u", "v", "w", "x", "y", "z",
            "F", "T", "W", "R"}

\* the class \w of Python's re module
WordChars == Letters \cup Digits \cup {"_"}

\* the characters str.strip() and str.lstrip() remove
Whitespace == {" ", TAB, NL, CR}

Max(a, b) == IF a > b THEN a ELSE b

Min(a, b) == IF a < b THEN a ELSE b

\* s[k:] of Python, k counted from 0
From(s, k) == SubSeq(s, k + 1, Len(s))

\* s.startswith(p)
startswith(s, p) == Len(s) >= Len(p) /\ SubSeq(s, 1, Len(p)) = p

\* s.endswith(p)
endswith(s, p) == Len(s) >= Len(p) /\ SubSeq(s, Len(s) - Len(p) + 1, Len(s)) = p

\* sep.join(parts)
RECURSIVE join(_, _)
join(sep, parts) ==
    IF parts = <<>> THEN <<>>
    ELSE IF Len(parts) = 1 THEN parts[1]
    ELSE parts[1] \o sep \o join(sep, Tail(parts))

\* the concatenation of a sequence of strings
Concat(parts) == join(<<>>, parts)

\* s.lstrip()
lstrip(s) ==
    LET keep == {i \in 1..Len(s) : s[i] \notin Whitespace}
    IN  IF keep = {} THEN <<>>
        ELSE SubSeq(s, CHOOSE i \in keep : \A j \in keep : i <= j, Len(s))

\* s.strip()
strip(s) ==
    LET keep == {i \in 1..Len(s) : s[i] \notin Whitespace}
    IN  IF keep = {} THEN <<>>
        ELSE SubSeq(s, CHOOSE i \in keep : \A j \in keep : i <= j,
                       CHOOSE i \in keep : \A j \in keep : i >= j)

\* the pieces of s between the positions in cuts (a set of indices of s);
\* the separator ending at a cut is two characters long when the cut is in
\* wide, one character long otherwise
RECURSIVE Pieces(_, _, _, _)
Pieces(s, start, cuts, wide) ==
    IF cuts = {} THEN <<SubSeq(s, start, Len(s))>>
    ELSE LET c == CHOOSE i \in cuts : \A j \in cuts : i <= j
         IN  <<SubSeq(s, start, IF c \in wide THEN c - 2 ELSE c - 1)>>
             \o Pieces(s, c + 1, cuts \ {c}, wide)

\* s.split(ch)
split(s, ch) == Pieces(s, 1, {i \in 1..Len(s) : s[i] = ch}, {})

\* s.splitlines(): lines end at "\n", "\r\n" and "\r"; no empty last line
splitlines(s) ==
    LET n == Len(s)
        ends == {i \in 1..n : \/ s[i] = NL
                              \/ s[i] = CR /\ ~(i < n /\ s[i + 1] = NL)}
        wide == {i \in ends : s[i] = NL /\ i > 1 /\ s[i - 1] = CR}
        all == Pieces(s, 1, ends, wide)
    IN  IF all[Len(all)] = <<>> THEN SubSeq(all, 1, Len(all) - 1) ELSE all

\* the lines of a text file as git sees them: split at "\n" only
FileLines(s) ==
    LET all == Pieces(s, 1, {i \in 1..Len(s) : s[i] = NL}, {})
    IN  IF all[Len(all)] = <<>> THEN SubSeq(all, 1, Len(all) - 1) ELSE all

\* l is one of the lines
IsLine(lines, l) == \E i \in 1..Len(lines) : lines[i] = l

\* the text of a file made of the given lines
RECURSIVE FileText(_)
FileText(lines) ==
    IF lines = <<>> THEN <<>> ELSE lines[1] \o <<NL>> \o FileText(Tail(lines))

\* gl.py:620 dos2unix: s.replace("\r\n", "\n")
dos2unix(s) ==
    LET n == Len(s)
        keep == {i \in 1..n : ~(s[i] = CR /\ i < n /\ s[i + 1] = NL)}
        F[i \in 0..n] ==
            IF i = 0 THEN <<>>
            ELSE IF i \in keep THEN F[i - 1] \o <<s[i]>> ELSE F[i - 1]
    IN  F[n]

\* str(n) for a natural number n
RECURSIVE str(_)
str(n) ==
    LET d == <<"0", "1", "2", "3", "4", "5", "6", "7", "8", "9">>
    IN  IF n < 10 THEN <<d[n + 1]>> ELSE str(n \div 10) \o <<d[(n % 10) + 1]>>

\* int(s) for a string of decimal digits
RECURSIVE int(_)
int(s) ==
    LET v(c) == CHOOSE k \in 0..9 : str(k) = <<c>>
    IN  IF s = <<>> THEN 0
        ELSE 10 * int(SubSeq(s, 1, Len(s) - 1)) + v(s[Len(s)])

\* str(b) for a bool b
strBool(b) == IF b THEN <<"T", "r", "u", "e">> ELSE <<"F", "a", "l", "s", "e">>

\* ------------------------------------------------------------------------
\* Configuration and names (gl.py:40-108)
\* ------------------------------------------------------------------------
\* gl.py:43 GITLAB_USER, the configured user
GITLAB_USER == <<"m", "e">>

\* gl.py:41
DIFF_CONTEXT_LINES == 5

\* gl.py:926 a thread key is 40 hexadecimal characters
ThreadKeyLen == 40

\* a thread key ending in the character c
Key(c) == [i \in 1..ThreadKeyLen |-> IF i = ThreadKeyLen THEN c ELSE "0"]

\* gl.py:497 the key written for every thread of the GitHub dialect
ZeroKey == Key("0")

\* gl.py:458 discussion_notes: a GitHub comment is its own single note; the
\* model stores it as a discussion whose id is the note's id
discussion_notes(discussion) == discussion.notes

\* ------------------------------------------------------------------------
\* The local repository as git and unidiff show it (gl.py:109-130, 193-220)
\* ------------------------------------------------------------------------
\* a row of a hunk (unidiff's Line): str(row) is the line type, the text and
\* the line end; a row has a line number on each side it belongs to
Line(line_type, value, source_line_no, target_line_no) ==
    [line_type |-> line_type, value |-> value,
     source_line_no |-> source_line_no, target_line_no |-> target_line_no]

\* the hunk with rows of the given types and texts whose first rows are line
\* source_start of the old file and line target_start of the new one; a row
\* of type "\\" is the row "\ No newline at end of file"
unidiff_hunk(types, values, source_start, target_start) ==
    [i \in 1..Len(types) |->
        Line(types[i], values[i] \o <<NL>>,
             IF types[i] \in {" ", "-"}
             THEN Some(source_start
                       + Cardinality({j \in 1..(i - 1) : types[j] \in {" ", "-"}}))
             ELSE Absent,
             IF types[i] \in {" ", "+"}
             THEN Some(target_start
                       + Cardinality({j \in 1..(i - 1) : types[j] \in {" ", "+"}}))
             ELSE Absent)]

is_added(line) == line.line_type = "+"

is_removed(line) == line.line_type = "-"

\* hunk.target and hunk.source: str(row) of the rows of the new file and of
\* the old file
target(hunk) ==
    LET rows == SelectSeq(hunk, LAMBDA l : l.line_type \in {" ", "+"})
    IN  [i \in 1..Len(rows) |-> <<rows[i].line_type>> \o rows[i].value]

source(hunk) ==
    LET rows == SelectSeq(hunk, LAMBDA l : l.line_type \in {" ", "-"})
    IN  [i \in 1..Len(rows) |-> <<rows[i].line_type>> \o rows[i].value]

\* the reviewed commit, its first parent as rev_parse names it, the file
THE_COMMIT == <<"c">>

THE_PARENT == <<"p">>

THE_FILE == <<"f">>

\* gl.py:193 fetch_commit(ref): the exception it ends with, or "".  A commit
\* that is not in the repository is fetched, and "git fetch" fails for one
\* that is nowhere.
fetch_commit ==
    IF repository.commits = "nowhere" THEN "GitCommandError" ELSE ""

\* gl.py:118 diff_for_newfile(base, head, path, context) for the entry the
\* file has in that diff (Absent: the diff does not name the file): the
\* exception it ends with, or the hunks of the file (gl.py:110-114 "git diff"
\* fails, or its output cannot be encoded)
diff_for_newfile(entry) ==
    IF repository.commits = "nowhere" \/ repository.diffable = "GitCommandError"
    THEN [error |-> "GitCommandError", hunks |-> <<>>]
    ELSE IF repository.diffable # ""
    THEN [error |-> repository.diffable, hunks |-> <<>>]
    ELSE IF entry = Absent THEN [error |-> "StopIteration", hunks |-> <<>>]
    ELSE [error |-> "", hunks |-> entry[1]]

\* rows[lo:hi] of Python for 0 <= lo
Slice(rows, lo, hi) == SubSeq(rows, lo + 1, Min(hi, Len(rows)))

\* the revisions of an anchor as they are printed
base_name == IF GITHUB THEN THE_COMMIT \o <<"~">> ELSE THE_PARENT

MissingCommits ==
    <<" ", "?", " ", "m", "i", "s", "s", "i", "n", "g", " ", "c", "o", "m", "m", "i", "t", "s", " ">> \o base_name \o <<" ", "o", "r", " ">> \o THE_COMMIT \o <<NL>>

Undecodable ==
    <<" ", "?", " ", "U", "n", "i", "c", "o", "d", "e", "E", "n", "c", "o", "d", "e", "E", "r", "r", "o", "r", " ", "p", "a", "r", "s", "i", "n", "g", " ", "'", "g", "i", "t", " ", "d", "i", "f", "f", " ">> \o base_name \o <<" ">> \o THE_COMMIT \o <<"'", NL>>

\* gl.py:210 is no f-string: the braces are printed
NoFile == <<" ", "?", " ", "n", "o", " ", "f", "i", "l", "e", " ", "'", "{", "n", "e", "w", "_", "p", "a", "t", "h", "}", "'", " ", "i", "n", " ", "{", "b", "a", "s", "e", "}", ".", ".", "{", "h", "e", "a", "d", "}", NL>>

\* gl.py:200 diff_context(base, head, old_line, new_path, new_line) for the
\* reviewed commit and file: the exception it ends with, or the text
diff_context_result(old_line, new_line) ==
    LET line == IF new_line # Absent THEN new_line ELSE old_line
        ended(the_context) ==
            IF endswith(the_context, <<NL>>) THEN the_context
            ELSE the_context \o <<NL>>
        cut(rows) ==
            ended(Concat(Slice(rows, Max(0, line[1] - DIFF_CONTEXT_LINES), line[1])))
        of(f) ==
            IF fetch_commit # "" THEN [error |-> fetch_commit, text |-> <<>>]
            ELSE IF f.error = "GitCommandError" THEN [error |-> "", text |-> MissingCommits]
            ELSE IF f.error = "UnicodeEncodeError" THEN [error |-> "", text |-> Undecodable]
            ELSE IF f.error = "StopIteration" THEN [error |-> "", text |-> NoFile]
            ELSE IF f.hunks = <<>> THEN [error |-> "IndexError", text |-> <<>>]
            ELSE IF line = Absent THEN [error |-> "TypeError", text |-> <<>>]
            ELSE [error |-> "",
                  text |-> cut(IF new_line # Absent THEN target(f.hunks[1])
                               ELSE source(f.hunks[1]))]
    IN  of(diff_for_newfile(repository.commit))

diff_context(old_line, new_line) == diff_context_result(old_line, new_line).text

\* gl.py:488-496 the one-line summary "git log" prints for a commit, and
\* nothing for a commit that is not there (GitCommandError)
commit_human(n0) ==
    IF n0.commit_id = Absent \/ repository.commits = "nowhere" THEN <<>>
    ELSE <<" ">> \o n0.commit_id[1] \o <<" ", "s", NL>>

\* ------------------------------------------------------------------------
\* Render (gl.py:462-519, 624-647)
\* ------------------------------------------------------------------------
\* gl.py:467-487 the "path:line: " prefix of an anchored thread
location(n0) ==
    IF n0.position = Absent THEN <<>>
    ELSE LET pos == n0.position[1]
             path == IF pos.new_path # <<>> THEN pos.new_path ELSE pos.old_path
             line == IF pos.new_line # Absent /\ pos.new_line[1] # 0
                     THEN pos.new_line ELSE pos.old_line
         IN  path \o <<":">>
             \o (IF line = Absent THEN <<"N", "o", "n", "e">> ELSE str(line[1]))
             \o <<":", " ">>

\* gl.py:507-517 one note as a tab-indented block
show_note(note) ==
    LET author == IF note.author = GITLAB_USER THEN str(note.id) ELSE note.author
        text == <<"[">> \o author \o <<"]", " ">> \o note.body
        lines == splitlines(text)
    IN  <<TAB>> \o lines[1]
        \o Concat([i \in 1..(Len(lines) - 1) |-> <<NL, TAB, TAB>> \o lines[i + 1]])
        \o <<NL>>

\* gl.py:464-518 one thread
show_thread(discussion) ==
    LET notes == discussion_notes(discussion)
        n0 == notes[1]
        discussion_id == IF GITHUB THEN ZeroKey ELSE discussion.id
        head == IF GITHUB /\ location(n0) = <<>> THEN <<>>
                ELSE location(n0) \o discussion_id \o <<NL>>
        context == IF n0.position = Absent THEN <<>>
                   ELSE diff_context(n0.position[1].old_line, n0.position[1].new_line)
    IN  head \o commit_human(n0) \o context
        \o Concat([i \in 1..Len(notes) |-> show_note(notes[i])])
        \o <<NL>>

\* gl.py:462 show_discussion
show_discussion(discussions) ==
    Concat([i \in 1..Len(discussions) |-> show_thread(discussions[i])])

\* the exception that ends show_discussion, or "": the one fetch_commit
\* (gl.py:472) or diff_context (gl.py:501, 504) raises for the first thread
\* that has one
show_error(discussions) ==
    LET raised(d) ==
            LET n0 == discussion_notes(d)[1]
            IN  IF n0.position = Absent THEN ""
                ELSE diff_context_result(n0.position[1].old_line,
                                         n0.position[1].new_line).error
        first(errors) ==
            IF \A i \in 1..Len(errors) : errors[i] = "" THEN ""
            ELSE errors[CHOOSE i \in 1..Len(errors) :
                            /\ errors[i] # ""
                            /\ \A j \in 1..(i - 1) : errors[j] = ""]
    IN  first([i \in 1..Len(discussions) |-> raised(discussions[i])])

\* gl.py:103-108 the field names of the two dialects
ISSUE_DESCRIPTION == IF GITHUB THEN "body" ELSE "description"

MERGE_REQUEST_SOURCE_BRANCH ==
    IF GITHUB THEN <<"h", "e", "a", "d">>
    ELSE <<"s", "o", "u", "r", "c", "e", "_", "b", "r", "a", "n", "c", "h">>

MERGE_REQUEST_TARGET_BRANCH ==
    IF GITHUB THEN <<"b", "a", "s", "e">>
    ELSE <<"t", "a", "r", "g", "e", "t", "_", "b", "r", "a", "n", "c", "h">>

\* the header prefixes of gl.py:627-646 and gl.py:794-847, without the MARKER
P_state_event == <<" ", "s", "t", "a", "t", "e", "_", "e", "v", "e", "n", "t", ":">>

P_reviewers == <<" ", "r", "e", "v", "i", "e", "w", "e", "r", "s", ":">>

P_remove_source_branch == <<" ", "r", "e", "m", "o", "v", "e", "_", "s", "o", "u", "r", "c", "e", "_", "b", "r", "a", "n", "c", "h", ":">>

P_assignees == <<" ", "a", "s", "s", "i", "g", "n", "e", "e", "s", ":">>

P_milestone == <<" ", "m", "i", "l", "e", "s", "t", "o", "n", "e", ":">>

P_labels == <<" ", " ", " ", " ", "l", "a", "b", "e", "l", "s", ":">>

\* gl.py:243 branch_name(thing, fqn=True) and gl.py:261 target_branch_name
branch_name(t) == t.source_branch[1]

target_branch_name(t) == t.target_branch

\* ",".join of a list of names
commas(names) == join(<<",">>, names)

\* gl.py:624 metadata_header
metadata_header(t) ==
    LET extra ==
            IF t.source_branch = Absent THEN <<>>
            ELSE MARKER \o <<" ">> \o MERGE_REQUEST_SOURCE_BRANCH \o <<":", " ">>
                    \o branch_name(t) \o <<NL>>
                 \o MARKER \o <<" ">> \o MERGE_REQUEST_TARGET_BRANCH \o <<":", " ">>
                    \o target_branch_name(t) \o <<NL>>
                 \o (IF GITHUB THEN <<>>
                     ELSE MARKER \o P_reviewers \o <<" ">> \o commas(t.reviewers[1]) \o <<NL>>)
                 \o (IF t.remove_source_branch = Absent THEN <<>>
                     ELSE MARKER \o P_remove_source_branch \o <<" ">>
                          \o strBool(t.remove_source_branch[1]) \o <<NL>>)
        labels == IF GITHUB THEN <<>>
                  ELSE MARKER \o P_labels \o <<" ">> \o commas(t.labels) \o <<NL>>
        assignees == IF GITHUB THEN <<>>
                     ELSE MARKER \o P_assignees \o <<" ">> \o commas(t.assignees) \o <<NL>>
    IN  t.title \o <<NL, NL>>
        \o (IF t.description = Absent THEN <<NL>>
            ELSE dos2unix(t.description[1] \o <<NL>>))
        \o extra \o assignees
        \o MARKER \o P_milestone \o <<" ">>
        \o (IF t.milestone # Absent THEN t.milestone[1] ELSE <<>>)
        \o <<NL>> \o labels \o <<NL>>

\* ------------------------------------------------------------------------
\* Parse of the metadata header (gl.py:769-872), for thing is not None
\* ------------------------------------------------------------------------
\* a Python dict with string keys
EmptyDict == [k \in {} |-> {}]

Put(d, k, v) == [x \in (DOMAIN d) \cup {k} |-> IF x = k THEN v ELSE d[x]]

Del(d, ks) == [x \in (DOMAIN d) \ ks |-> d[x]]

\* gl.py:142 lookup_user(username=a)["id"] and gl.py:170 milestone_title_to_id:
\* the id the server's lists give for a name
lookup_user_id(a) == <<"id", a>>

milestone_title_to_id(m) == <<"id", m>>

\* gl.py:794-802 the fields that are consumed; only state_event is recorded
OptionalFields == <<MERGE_REQUEST_SOURCE_BRANCH, MERGE_REQUEST_TARGET_BRANCH,
                    Tail(SubSeq(P_state_event, 1, Len(P_state_event) - 1))>>

OptionalPrefix(i) == MARKER \o <<" ">> \o OptionalFields[i] \o <<":">>

\* the outcome of one row of the META state
Row(k, data) == [kind |-> k, data |-> data]

\* gl.py:793-853 one row of the META state: "ok" with the dict after the
\* row, "break" when no field prefix matches, or "KeyError" when the row
\* names the reviewers of an item that has none (an issue)
meta_row(row, t, data) ==
    LET arg(prefix) == lstrip(From(row, Len(MARKER \o prefix)))
        hit == {i \in 1..3 : startswith(row, OptionalPrefix(i))}
    IN  IF hit # {} THEN
            IF 3 \in hit
            THEN Row("ok", Put(data, "state_event", lstrip(From(row, Len(OptionalPrefix(3))))))
            ELSE Row("ok", data)
        ELSE IF startswith(row, MARKER \o P_assignees) THEN
            IF arg(P_assignees) # commas(t.assignees) THEN
                IF arg(P_assignees) = <<>>
                THEN Row("ok", Put(data, "assignee_ids", <<0>>))
                ELSE Row("ok", Put(data, "assignee_ids",
                        LET as == split(arg(P_assignees), ",")
                        IN  [i \in 1..Len(as) |-> lookup_user_id(as[i])]))
            ELSE Row("ok", data)
        ELSE IF startswith(row, MARKER \o P_reviewers) THEN
            IF t.reviewers = Absent THEN Row("KeyError", data)
            ELSE IF arg(P_reviewers) # commas(t.reviewers[1]) THEN
                IF arg(P_reviewers) = <<>>
                THEN Row("ok", Put(data, "reviewer_ids", <<0>>))
                ELSE Row("ok", Put(data, "reviewer_ids",
                        LET rs == split(arg(P_reviewers), ",")
                        IN  [i \in 1..Len(rs) |-> lookup_user_id(rs[i])]))
            ELSE Row("ok", data)
        ELSE IF startswith(row, MARKER \o P_remove_source_branch) THEN
            \* bool(str) is true for every non-empty string
            LET b == arg(P_remove_source_branch) # <<>>
            IN  IF Some(b) # t.remove_source_branch
                THEN Row("ok", Put(data, "remove_source_branch", b))
                ELSE Row("ok", data)
        ELSE IF startswith(row, MARKER \o P_milestone) THEN
            LET milestone == arg(P_milestone)
            IN  IF \/ (milestone # <<>>) # (t.milestone # Absent)
                   \/ t.milestone # Absent /\ milestone # t.milestone[1]
                THEN IF milestone = <<>>
                     THEN Row("ok", Put(data, "milestone_id", <<0>>))
                     ELSE Row("ok", Put(data, "milestone_id", milestone_title_to_id(milestone)))
                ELSE Row("ok", data)
        ELSE IF startswith(row, MARKER \o P_labels) THEN
            IF arg(P_labels) # commas(t.labels)
            THEN Row("ok", Put(data, "labels", arg(P_labels)))
            ELSE Row("ok", data)
        ELSE Row("break", data)

\* gl.py:854-872 what follows the loop; j is the index the loop stopped at
header_end(rows, t, j, description, data) ==
    LET text == join(<<NL>>, description)
    IN  IF t.description = Absent
        THEN [error |-> "AttributeError", j |-> j, data |-> data]
        ELSE LET d1 == IF text # dos2unix(t.description[1])
                       THEN Put(data, ISSUE_DESCRIPTION, text) ELSE data
                 d2 == IF GITHUB
                       THEN Del(d1, {"reviewer_ids", "assignee_ids", "labels",
                                     "milestone_id", "remove_source_branch"})
                       ELSE d1
             IN  IF ~(j = 0 \/ startswith(rows[j], MARKER))
                 THEN [error |-> "AssertionError", j |-> j, data |-> d1]
                 ELSE IF ~(j = Len(rows) \/ ~startswith(rows[j + 1], MARKER))
                 THEN [error |-> "AssertionError", j |-> j, data |-> d1]
                 ELSE [error |-> "", j |-> j, data |-> d2]

\* gl.py:774-853 the loop, from row index j (counted from 0)
RECURSIVE header_loop(_, _, _, _, _, _)
header_loop(rows, t, j, state, description, data) ==
    IF j = Len(rows) THEN header_end(rows, t, j, description, data)
    ELSE LET row == rows[j + 1]
         IN  IF j = 0 THEN
                 header_loop(rows, t, 1, state, description,
                             IF row # t.title THEN Put(data, "title", row) ELSE data)
             ELSE IF j = 1 THEN
                 IF row = <<>> THEN header_loop(rows, t, 2, state, description, data)
                 ELSE [error |-> "AssertionError", j |-> j, data |-> data]
             ELSE IF state = "DESCRIPTION" THEN
                 IF startswith(row, MARKER)
                 THEN header_loop(rows, t, j, "META", description, data)
                 ELSE header_loop(rows, t, j + 1, state, description \o <<row>>, data)
             ELSE LET r == meta_row(row, t, data)
                  IN  IF r.kind = "break" THEN header_end(rows, t, j, description, data)
                      ELSE IF r.kind = "KeyError"
                      THEN [error |-> "KeyError", j |-> j, data |-> data]
                      ELSE header_loop(rows, t, j + 1, state, description, r.data)

\* gl.py:769 parse_metadata_header(rows, thing): [error, j, data]
parse_metadata_header(rows, t) ==
    header_loop(rows, t, 0, "DESCRIPTION", <<>>, EmptyDict)

\* ------------------------------------------------------------------------
\* The regular expressions of submit_discussion (gl.py:919-983)
\* ------------------------------------------------------------------------
\* the length of the longest run of characters of class cls at s[k], s[k+1], ...
Run(s, k, cls) ==
    LET stop == {i \in k..Len(s) : s[i] \notin cls}
    IN  IF stop = {} THEN Len(s) - k + 1
        ELSE (CHOOSE i \in stop : \A j \in stop : i <= j) - k

\* ^\t\[(\d+)\] (.*)   gl.py:919 (without the last group) and gl.py:983
tag_match(row) ==
    LET n == Run(row, 3, Digits)
    IN  /\ Len(row) >= 5
        /\ row[1] = TAB /\ row[2] = "["
        /\ n >= 1
        /\ Len(row) >= 4 + n
        /\ row[3 + n] = "]" /\ row[4 + n] = " "

\* group 1 and group 2 of that match
tag_id(row) == int(SubSeq(row, 3, 2 + Run(row, 3, Digits)))

tag_rest(row) == From(row, 4 + Run(row, 3, Digits))

\* ^\t\[\w+\]   gl.py:981
word_tag_match(row) ==
    LET n == Run(row, 3, WordChars)
    IN  /\ Len(row) >= 4
        /\ row[1] = TAB /\ row[2] = "["
        /\ n >= 1
        /\ Len(row) >= 3 + n
        /\ row[3 + n] = "]"

\* [^:]+:\d+:    (followed by one space) matching the whole of p
location_prefix_match(p) ==
    LET m == Len(p)
        colons == {i \in 1..m : p[i] = ":"}
        c == CHOOSE i \in colons : \A j \in colons : i <= j
    IN  /\ colons # {}
        /\ c >= 2
        /\ m >= c + 3
        /\ p[m] = " " /\ p[m - 1] = ":"
        /\ \A i \in (c + 1)..(m - 2) : p[i] \in Digits

\* ^(?:[^:]+:\d+: )?([0-9a-f]{40})$   gl.py:926
location_match(row) ==
    LET n == Len(row)
    IN  /\ n >= ThreadKeyLen
        /\ \A i \in (n - ThreadKeyLen + 1)..n : row[i] \in HexDigits
        /\ \/ n = ThreadKeyLen
           \/ location_prefix_match(SubSeq(row, 1, n - ThreadKeyLen))

\* group 1 of that match
location_id(row) == From(row, Len(row) - ThreadKeyLen)

\* the command tokens of gl.py:940-966
T_r == <<"r">>

T_u == <<"u">>

T_merge == <<"!", "m", "e", "r", "g", "e">>

T_close == <<"!", "c", "l", "o", "s", "e">>

T_delete == <<"!", "d", "e", "l", "e", "t", "e">>

\* ^[ +-]   gl.py:978
context_match(row) == Len(row) >= 1 /\ row[1] \in {" ", "+", "-"}

\* ------------------------------------------------------------------------
\* submit_discussion (gl.py:875-1058)
\* ------------------------------------------------------------------------
\* one mutation request, as gitlab_request receives it
Req(op, what_id, discussion_id, note_id, body) ==
    [op |-> op, what_id |-> what_id, discussion |-> discussion_id,
     note |-> note_id, body |-> body]

\* an insertion-ordered dict as a sequence of [k, v]: d[k] = v
Assign(d, k, v) ==
    IF \E i \in 1..Len(d) : d[i].k = k
    THEN [i \in 1..Len(d) |-> IF d[i].k = k THEN [k |-> k, v |-> v] ELSE d[i]]
    ELSE Append(d, [k |-> k, v |-> v])

Has(d, k) == \E i \in 1..Len(d) : d[i].k = k

Get(d, k) == d[CHOOSE i \in 1..Len(d) : d[i].k = k].v

\* the first index i with discussions[i].id = id, as next(...) finds it
Find(discussions, id) ==
    LET hit == {i \in 1..Len(discussions) : discussions[i].id = id}
    IN  IF hit = {} THEN Absent
        ELSE Some(CHOOSE i \in hit : \A j \in hit : i <= j)

\* gl.py:876-888 the locals at the start of the loop; did, discussion and n0
\* are unbound (Absent) until a row binds them
submit_start(t, data) ==
    [state |-> "CONTEXT", changed |-> FALSE, desc_changed |-> FALSE,
     note_id |-> Absent, did |-> Absent, discussion |-> Absent,
     what_id |-> t.iid, data |-> data,
     comments |-> <<>>, new_comments |-> <<>>, new_discussions |-> <<>>,
     log |-> <<>>, error |-> ""]

Fail(s, e) == [s EXCEPT !.error = e]

Send(s, req, flag) == [s EXCEPT !.log = Append(@, req), !.changed = flag]

\* gl.py:894-896 the keys of data ending in "_id", "_ids" or "_event", which
\* are not compared with the server
Unchecked == {"assignee_ids", "reviewer_ids", "milestone_id", "state_event"}

\* gl.py:890-906 "if data and False": the one combined update of the changed
\* header fields, which the constant False switches off.  Behind the switch:
\* nothing in a dry run; otherwise the item is fetched again (current) and a
\* changed field whose known value differs from it ends the submit (assert 0)
metadata_step(s, t, current) ==
    IF s.data # EmptyDict /\ FALSE
    THEN IF DRY_RUN THEN s
         ELSE IF \E key \in (DOMAIN s.data) \ Unchecked : t[key] # current[key]
         THEN Fail(s, "AssertionError")
         ELSE [Send(s, Req("put", s.what_id, Absent, Absent, Some(s.data)), TRUE)
                 EXCEPT !.desc_changed = TRUE]
    ELSE s

\* gl.py:919-925 a note header row sets note_id (and, on GitHub, did)
note_header_step(discussions, s, row) ==
    IF ~tag_match(row) THEN s
    ELSE IF ~GITHUB THEN [s EXCEPT !.note_id = Some(tag_id(row))]
    ELSE LET f == Find(discussions, tag_id(row))
         IN  IF f = Absent
             THEN Fail([s EXCEPT !.note_id = Some(tag_id(row))], "StopIteration")
             ELSE [s EXCEPT !.note_id = Some(tag_id(row)), !.did = f,
                            !.comments = Assign(@, f[1], <<>>)]

\* gl.py:926-938 a thread header row
location_step(discussions, s, row) ==
    IF GITHUB THEN [s EXCEPT !.state = "CONTEXT"]
    ELSE LET f == Find(discussions, location_id(row))
         IN  IF f = Absent THEN Fail([s EXCEPT !.note_id = Absent], "StopIteration")
             ELSE [s EXCEPT !.note_id = Absent, !.did = f, !.discussion = f,
                            !.what_id = discussion_notes(discussions[f[1]])[1].noteable_iid,
                            !.comments = Assign(@, f[1], <<>>),
                            !.state = "CONTEXT"]

\* gl.py:942, 949 n0["resolved"]: n0 is the first note of the thread bound
\* by the last thread header
n0_resolved(discussions, s) == discussion_notes(discussions[s.discussion[1]])[1].resolved

\* gl.py:980-1000 a row in state COMMENTS
comments_step(s, row0) ==
    LET id1 == IF word_tag_match(row0) THEN Absent ELSE s.note_id
        note_id == IF tag_match(row0) THEN Some(tag_id(row0)) ELSE id1
        row1 == IF tag_match(row0) THEN <<TAB>> \o tag_rest(row0) ELSE row0
        row2 == IF row1 = <<>> THEN <<TAB>> ELSE row1
        s1 == [s EXCEPT !.note_id = note_id, !.state = "COMMENTS"]
    IN  IF startswith(row2, <<TAB>>) THEN
            LET row3 == From(row2, 1)
                row4 == IF startswith(row3, <<TAB>>) THEN From(row3, 1) ELSE row3
            IN  IF note_id = Absent THEN s1
                ELSE IF s.did = Absent THEN Fail(s1, "UnboundLocalError")
                ELSE LET notes == Get(s.comments, s.did[1])
                         old == IF Has(notes, note_id[1]) THEN Get(notes, note_id[1])
                                ELSE <<>>
                     IN  [s1 EXCEPT !.comments =
                            Assign(@, s.did[1], Assign(notes, note_id[1], Append(old, row4)))]
        ELSE IF s.did = Absent
             THEN Fail([s1 EXCEPT !.state = "NEW_COMMENT"], "UnboundLocalError")
             ELSE [s1 EXCEPT !.state = "NEW_COMMENT",
                             !.new_comments = Assign(@, s.did[1], row2)]

\* a parser that knows no resolve and no unresolve token: the rows "r" and
\* "u" are text
resolve_step_as_text(discussions, s, want) ==
    comments_step(s, IF want THEN T_r ELSE T_u)

\* a parser that sends the request of a resolve or unresolve token whatever
\* the snapshot says of the thread
resolve_step_unconditional(discussions, s, want) ==
    IF s.discussion = Absent THEN Fail(s, "UnboundLocalError")
    ELSE Send(s, Req(IF want THEN "resolve" ELSE "unresolve", s.what_id,
                     discussions[s.discussion[1]].id, Absent, Absent), want)

\* gl.py:939-959 the tokens of a merge request
resolve_step(discussions, s, want) ==
    IF s.discussion = Absent THEN Fail(s, "UnboundLocalError")
    ELSE IF n0_resolved(discussions, s) = Absent THEN Fail(s, "KeyError")
    ELSE IF want /\ ~n0_resolved(discussions, s)[1]
         THEN Send(s, Req("resolve", s.what_id, discussions[s.discussion[1]].id,
                          Absent, Absent), TRUE)
    ELSE IF ~want /\ n0_resolved(discussions, s)[1]
         THEN Send(s, Req("unresolve", s.what_id, discussions[s.discussion[1]].id,
                          Absent, Absent), FALSE)
    ELSE s

\* gl.py:966-974
delete_step(discussions, s) ==
    IF GITHUB
    THEN Send(s, Req("delete", Absent, Absent, s.note_id, Absent), TRUE)
    ELSE IF s.discussion = Absent THEN Fail(s, "UnboundLocalError")
    ELSE Send(s, Req("delete", s.what_id, discussions[s.discussion[1]].id,
                     s.note_id, Absent), TRUE)

\* gl.py:907-1003 one row of the loop
submit_row(discussions, is_mr, t, s0, row) ==
    IF s0.state = "NEW_DISCUSSION" THEN
        IF row = MARKER THEN [s0 EXCEPT !.new_discussions = Append(@, <<>>)]
        ELSE LET nd == IF s0.new_discussions = <<>> THEN << <<>> >>
                       ELSE s0.new_discussions
             IN  [s0 EXCEPT !.new_discussions =
                    [nd EXCEPT ![Len(nd)] = Append(@, row)]]
    ELSE IF startswith(row, MARKER) THEN [s0 EXCEPT !.state = "NEW_DISCUSSION"]
    ELSE LET s == note_header_step(discussions, s0, row)
         IN  IF s.error # "" THEN s
             ELSE IF location_match(row) THEN location_step(discussions, s, row)
             ELSE IF is_mr /\ row = T_r THEN resolve_step(discussions, s, TRUE)
             ELSE IF is_mr /\ row = T_u THEN resolve_step(discussions, s, FALSE)
             ELSE IF is_mr /\ row = T_merge
                  THEN Send(s, Req("merge", t.iid, Absent, Absent, Absent), TRUE)
             ELSE IF row = T_close
                  THEN Send(s, Req("close", s.what_id, Absent, Absent, Absent), TRUE)
             ELSE IF row = T_delete THEN delete_step(discussions, s)
             ELSE IF s.state = "CONTEXT" /\ ~startswith(row, <<TAB>>)
                  THEN (IF context_match(row) THEN s   \* continue
                        ELSE s)                        \* no later branch applies
             ELSE IF s.state \in {"CONTEXT", "COMMENTS"} THEN comments_step(s, row)
             ELSE \* NEW_COMMENT
                  IF s.did = Absent THEN Fail(s, "UnboundLocalError")
                  ELSE IF ~Has(s.new_comments, s.did[1]) THEN Fail(s, "KeyError")
                  ELSE [s EXCEPT !.new_comments =
                          Assign(@, s.did[1], Get(@, s.did[1]) \o <<NL>> \o row)]

\* gl.py:907 the loop over rows[i:]
RECURSIVE submit_rows(_, _, _, _, _, _)
submit_rows(discussions, is_mr, t, s, rows, k) ==
    IF k > Len(rows) \/ s.error # "" THEN s
    ELSE submit_rows(discussions, is_mr, t,
                     submit_row(discussions, is_mr, t, s, rows[k]), rows, k + 1)

\* gl.py:1004-1015 without the test of gl.py:1006: a request for every new
\* thread, blank or not
RECURSIVE post_new_discussions_blank(_, _)
post_new_discussions_blank(s, k) ==
    IF k > Len(s.new_discussions) \/ s.error # "" THEN s
    ELSE post_new_discussions_blank(
            Send(s, Req("create_discussion", s.what_id, Absent, Absent,
                        Some(join(<<NL>>, s.new_discussions[k]))), TRUE), k + 1)

\* gl.py:1004-1015 one create-discussion per non-blank new thread
RECURSIVE post_new_discussions(_, _)
post_new_discussions(s, k) ==
    IF k > Len(s.new_discussions) \/ s.error # "" THEN s
    ELSE LET body == join(<<NL>>, s.new_discussions[k])
         IN  IF strip(body) = <<>> THEN post_new_discussions(s, k + 1)
             ELSE post_new_discussions(
                    Send(s, Req("create_discussion", s.what_id, Absent, Absent, Some(body)),
                         TRUE), k + 1)

\* gl.py:1016-1030 one create-reply per thread that got a reply
RECURSIVE post_new_comments(_, _, _)
post_new_comments(discussions, s, k) ==
    IF k > Len(s.new_comments) \/ s.error # "" THEN s
    ELSE LET discussion == discussions[s.new_comments[k].k]
         IN  post_new_comments(discussions,
                Send(s, Req("create_reply", s.what_id, discussion.id,
                            Some(discussion_notes(discussion)[1].id),
                            Some(s.new_comments[k].v)), TRUE),
                k + 1)

\* the notes of all threads in the order gl.py:1031-1034 visits them
flat_comments(comments) ==
    Concat([i \in 1..Len(comments) |->
              [j \in 1..Len(comments[i].v) |->
                 [did |-> comments[i].k, note_id |-> comments[i].v[j].k,
                  comment |-> comments[i].v[j].v]]])

\* gl.py:1036-1039 the note the id names: in the thread (GitLab), among all
\* comments (GitHub)
find_note(discussions, did, note_id) ==
    LET pool == IF GITHUB
                THEN [i \in 1..Len(discussions) |-> discussion_notes(discussions[i])[1]]
                ELSE discussion_notes(discussions[did])
        hit == {i \in 1..Len(pool) : pool[i].id = note_id}
    IN  IF hit = {} THEN Absent
        ELSE Some(pool[CHOOSE i \in hit : \A j \in hit : i <= j])

\* gl.py:1031-1057 one update-note per note whose trimmed body changed
RECURSIVE put_comments(_, _, _)
put_comments(discussions, s, k) ==
    IF k > Len(flat_comments(s.comments)) \/ s.error # "" THEN s
    ELSE LET c == flat_comments(s.comments)[k]
             note == find_note(discussions, c.did, c.note_id)
             new_body == strip(join(<<NL>>, c.comment))
         IN  IF note = Absent THEN Fail(s, "StopIteration")
             ELSE IF new_body # dos2unix(strip(note[1].body))
             THEN put_comments(discussions,
                    Send(s, Req("update_note", IF GITHUB THEN Absent ELSE s.what_id,
                                IF GITHUB THEN Absent ELSE discussions[c.did].id,
                                Some(c.note_id), Some(new_body)), TRUE),
                    k + 1)
             ELSE put_comments(discussions, s, k + 1)

\* gl.py:875 submit_discussion(discussions, rows, merge_request | issue),
\* with current the item as the server holds it (gl.py:892): the final locals; (changed, desc_changed) is returned when error = "".
\* An exception ends the function: every later step leaves the locals alone.
submit_discussion(discussions, rows, is_mr, t, current) ==
    LET body(h) ==
            IF h.error # "" THEN Fail(submit_start(t, h.data), h.error)
            ELSE put_comments(discussions,
                    post_new_comments(discussions,
                        post_new_discussions(
                            submit_rows(discussions, is_mr, t,
                                        metadata_step(submit_start(t, h.data), t, current),
                                        rows, h.j + 1),
                            1),
                        1),
                    1)
    IN  body(parse_metadata_header(rows, t))

\* ------------------------------------------------------------------------
\* git merge-file (gl.py:667-671, 714-717): the line-based three-way merge
\* of git's xdiff (xdl_merge at level XDL_MERGE_ZEALOUS_ALNUM).  Indices
\* count lines from 0 as xdiff does.
\* ------------------------------------------------------------------------
\* row i of the table of longest common subsequences of a[i..] and b[j..],
\* for j = from .. Len(b); below is row i + 1
RECURSIVE lcs_row(_, _, _, _, _)
lcs_row(a, b, i, below, from) ==
    IF from = Len(b) THEN <<0>>
    ELSE LET rest == lcs_row(a, b, i, below, from + 1)
         IN  << IF a[i + 1] = b[from + 1]
                THEN 1 + below[from + 2]
                ELSE Max(below[from + 1], rest[1]) >> \o rest

\* the rows i = from .. Len(a) of that table; L[i][j] is table[i+1][j+1]
RECURSIVE lcs_table(_, _, _)
lcs_table(a, b, from) ==
    IF from = Len(a) THEN << [j \in 1..(Len(b) + 1) |-> 0] >>
    ELSE LET rest == lcs_table(a, b, from + 1)
         IN  \* the rows below are computed before the row that reads them
             IF Len(rest) > 0 THEN <<lcs_row(a, b, from, rest[1], 0)>> \o rest
             ELSE <<>>

Hunk(i1, chg1, i2, chg2) == [i1 |-> i1, chg1 |-> chg1, i2 |-> i2, chg2 |-> chg2]

\* the edit script of a -> b read off the table from (i, j): matching lines
\* are taken as early as possible, so that a change sits as low as it can
RECURSIVE edit_script(_, _, _, _, _, _)
edit_script(a, b, L, i, j, cur) ==
    LET n == Len(a)
        m == Len(b)
        open == IF cur = <<>> THEN Hunk(i, 0, j, 0) ELSE cur[1]
    IN  IF i = n /\ j = m THEN cur
        ELSE IF i < n /\ j < m /\ a[i + 1] = b[j + 1]
                /\ L[i + 1][j + 1] = 1 + L[i + 2][j + 2]
        THEN cur \o edit_script(a, b, L, i + 1, j + 1, <<>>)
        ELSE IF j < m /\ (i = n \/ L[i + 1][j + 2] >= L[i + 2][j + 1])
        THEN edit_script(a, b, L, i, j + 1, <<[open EXCEPT !.chg2 = @ + 1]>>)
        ELSE edit_script(a, b, L, i + 1, j, <<[open EXCEPT !.chg1 = @ + 1]>>)

\* xdl_trim_ends: the number of leading lines a and b share, and the number
\* of trailing lines they share after those
common_prefix(a, b) ==
    LET diff == {i \in 1..Min(Len(a), Len(b)) : a[i] # b[i]}
    IN  IF diff = {} THEN Min(Len(a), Len(b))
        ELSE (CHOOSE i \in diff : \A j \in diff : i <= j) - 1

common_suffix(a, b) ==
    LET room == Min(Len(a), Len(b)) - common_prefix(a, b)
        diff == {i \in 1..room : a[Len(a) + 1 - i] # b[Len(b) + 1 - i]}
    IN  IF diff = {} THEN room
        ELSE (CHOOSE i \in diff : \A j \in diff : i <= j) - 1

\* how far the group of size lines at f[start + 1 ..] can move down before
\* line limit: it moves one line while its first line equals the line after it
group_slide_down(f, start, size, limit) ==
    LET stuck == {k \in 0..(limit - start - size) :
                    \/ start + size + k >= limit
                    \/ f[start + k + 1] # f[start + size + k + 1]}
    IN  CHOOSE k \in stuck : \A l \in stuck : k <= l

\* adjacent changes are one change
RECURSIVE join_hunks(_, _)
join_hunks(scr, res) ==
    IF scr = <<>> THEN res
    ELSE LET h == Head(scr)
             p == res[Len(res)]
         IN  IF res # <<>> /\ p.i1 + p.chg1 = h.i1 /\ p.i2 + p.chg2 = h.i2
             THEN join_hunks(Tail(scr), SubSeq(res, 1, Len(res) - 1)
                    \o <<Hunk(p.i1, p.chg1 + h.chg1, p.i2, p.chg2 + h.chg2)>>)
             ELSE join_hunks(Tail(scr), res \o <<h>>)

\* xdl_change_compact: a pure insertion or deletion is moved down as far as
\* its lines allow
xdl_change_compact(a, b, scr) ==
    LET nxt(n) == IF n < Len(scr) THEN scr[n + 1]
                  ELSE Hunk(Len(a), 0, Len(b), 0)
        k(n) == IF scr[n].chg1 = 0
                THEN group_slide_down(b, scr[n].i2, scr[n].chg2, nxt(n).i2)
                ELSE IF scr[n].chg2 = 0
                THEN group_slide_down(a, scr[n].i1, scr[n].chg1, nxt(n).i1)
                ELSE 0
    IN  join_hunks([n \in 1..Len(scr) |->
            Hunk(scr[n].i1 + k(n), scr[n].chg1, scr[n].i2 + k(n), scr[n].chg2)],
            <<>>)

\* xdl_diff: the changes that turn the lines a into the lines b
xdl_diff(a, b) ==
    LET pre == common_prefix(a, b)
        suf == common_suffix(a, b)
        ma == SubSeq(a, pre + 1, Len(a) - suf)
        mb == SubSeq(b, pre + 1, Len(b) - suf)
        scr == edit_script(ma, mb, lcs_table(ma, mb, 0), 0, 0, <<>>)
    IN  xdl_change_compact(a, b, [k \in 1..Len(scr) |->
            Hunk(scr[k].i1 + pre, scr[k].chg1, scr[k].i2 + pre, scr[k].chg2)])

Merge(mode, i0, chg0, i1, chg1, i2, chg2) ==
    [mode |-> mode, i0 |-> i0, chg0 |-> chg0, i1 |-> i1, chg1 |-> chg1,
     i2 |-> i2, chg2 |-> chg2]

\* xdl_append_merge: a change that touches the previous one is folded into it
xdl_append_merge(res, m) ==
    LET p == res[Len(res)]
    IN  IF res # <<>> /\ (m.i1 <= p.i1 + p.chg1 \/ m.i2 <= p.i2 + p.chg2)
        THEN [res EXCEPT ![Len(res)] =
                [p EXCEPT !.mode = IF m.mode # p.mode THEN 0 ELSE p.mode,
                          !.chg0 = m.i0 + m.chg0 - p.i0,
                          !.chg1 = m.i1 + m.chg1 - p.i1,
                          !.chg2 = m.i2 + m.chg2 - p.i2]]
        ELSE Append(res, m)

\* the conflict xdl_do_merge records for two overlapping changes
conflict_of(a, b) ==
    LET off == a.i1 - b.i1
        ffo == off + a.chg1 - b.chg1
        i0 == IF off > 0 THEN a.i1 - off ELSE a.i1
        i1 == IF off > 0 THEN a.i2 - off ELSE a.i2
        i2 == IF off > 0 THEN b.i2 ELSE b.i2 + off
        chg0 == a.i1 + a.chg1 - i0
        chg1 == a.i2 + a.chg2 - i1
        chg2 == b.i2 + b.chg2 - i2
    IN  IF ffo < 0 THEN Merge(0, i0, chg0 - ffo, i1, chg1 - ffo, i2, chg2)
        ELSE Merge(0, i0, chg0, i1, chg1, i2, chg2 + ffo)

\* xdl_do_merge: x1 the changes base -> ours, x2 the changes base -> theirs
RECURSIVE xdl_do_merge(_, _, _, _, _, _, _)
xdl_do_merge(ours, theirs, x1, x2, d1, d2, res) ==
    IF x1 = <<>> /\ x2 = <<>> THEN res
    ELSE IF x2 = <<>> THEN
        LET a == x1[1]
        IN  xdl_do_merge(ours, theirs, Tail(x1), x2, d1, d2,
                xdl_append_merge(res, Merge(1, a.i1, a.chg1, a.i2, a.chg2,
                                            a.i1 + d2, a.chg1)))
    ELSE IF x1 = <<>> THEN
        LET b == x2[1]
        IN  xdl_do_merge(ours, theirs, x1, Tail(x2), d1, d2,
                xdl_append_merge(res, Merge(2, b.i1, b.chg1, b.i1 + d1, b.chg1,
                                            b.i2, b.chg2)))
    ELSE LET a == x1[1]
             b == x2[1]
             e1 == a.i1 + a.chg1
             e2 == b.i1 + b.chg1
             same == /\ a.i1 = b.i1 /\ a.chg1 = b.chg1 /\ a.chg2 = b.chg2
                     /\ SubSeq(ours, a.i2 + 1, a.i2 + a.chg2)
                        = SubSeq(theirs, b.i2 + 1, b.i2 + b.chg2)
         IN  IF e1 < b.i1 THEN
                 xdl_do_merge(ours, theirs, Tail(x1), x2, d1, d2,
                     xdl_append_merge(res, Merge(1, a.i1, a.chg1, a.i2, a.chg2,
                                                 b.i2 - b.i1 + a.i1, a.chg1)))
             ELSE IF e2 < a.i1 THEN
                 xdl_do_merge(ours, theirs, x1, Tail(x2), d1, d2,
                     xdl_append_merge(res, Merge(2, b.i1, b.chg1,
                                                 a.i2 - a.i1 + b.i1, b.chg1,
                                                 b.i2, b.chg2)))
             ELSE xdl_do_merge(ours, theirs,
                     IF e2 >= e1 THEN Tail(x1) ELSE x1,
                     IF e1 >= e2 THEN Tail(x2) ELSE x2, d1, d2,
                     IF same THEN res ELSE xdl_append_merge(res, conflict_of(a, b)))

\* xdl_refine_conflicts: a conflict is split at the lines its two sides share
RECURSIVE xdl_refine_conflicts(_, _, _)
xdl_refine_conflicts(ours, theirs, ms) ==
    IF ms = <<>> THEN <<>>
    ELSE LET m == ms[1]
             scr == xdl_diff(SubSeq(ours, m.i1 + 1, m.i1 + m.chg1),
                             SubSeq(theirs, m.i2 + 1, m.i2 + m.chg2))
             first == IF m.mode # 0 \/ m.chg1 = 0 \/ m.chg2 = 0 THEN <<m>>
                      ELSE IF scr = <<>> THEN <<[m EXCEPT !.mode = 4]>>
                      ELSE [k \in 1..Len(scr) |->
                              Merge(0, m.i0, m.chg0, m.i1 + scr[k].i1, scr[k].chg1,
                                    m.i2 + scr[k].i2, scr[k].chg2)]
         IN  first \o xdl_refine_conflicts(ours, theirs, Tail(ms))

\* lines_contain_alnum: isalnum() of some byte of the lines
AlnumChars == Letters \cup Digits

lines_contain_alnum(lines) ==
    \E i \in 1..Len(lines) : \E k \in 1..Len(lines[i]) : lines[i][k] \in AlnumChars

\* xdl_simplify_merge(simplify_if_no_alnum = 1): conflicts that are at most
\* three lines apart, or separated by lines without letters and digits, are
\* joined; out is the result so far
RECURSIVE xdl_simplify_merge(_, _, _)
xdl_simplify_merge(ours, ms, out) ==
    IF ms = <<>> THEN out
    ELSE LET m == ms[1]
             p == out[Len(out)]
         IN  IF /\ out # <<>>
                /\ p.mode = 0 /\ m.mode = 0
                /\ ~(/\ m.i1 - (p.i1 + p.chg1) > 3
                     /\ lines_contain_alnum(SubSeq(ours, p.i1 + p.chg1 + 1, m.i1)))
             THEN xdl_simplify_merge(ours, Tail(ms),
                     [out EXCEPT ![Len(out)] =
                        [p EXCEPT !.chg1 = m.i1 + m.chg1 - p.i1,
                                  !.chg2 = m.i2 + m.chg2 - p.i2]])
             ELSE xdl_simplify_merge(ours, Tail(ms), Append(out, m))

\* the conflict marker lines; W and R stand for the paths given to git (the
\* working file and the new pristine file)
ConflictStart == <<"<", "<", "<", "<", "<", "<", "<", " ", "W">>

ConflictMiddle == <<"=", "=", "=", "=", "=", "=", "=">>

ConflictEnd == <<">", ">", ">", ">", ">", ">", ">", " ", "R">>

\* xdl_fill_merge_buffer: ours with theirs' changes applied and conflicts
\* marked; i is the next line of ours to copy
RECURSIVE xdl_fill_merge_buffer(_, _, _, _)
xdl_fill_merge_buffer(ours, theirs, ms, i) ==
    IF ms = <<>> THEN SubSeq(ours, i + 1, Len(ours))
    ELSE LET m == ms[1]
         IN  IF m.mode \in {1, 4}
             THEN xdl_fill_merge_buffer(ours, theirs, Tail(ms), i)
             ELSE SubSeq(ours, i + 1, m.i1)
                  \o (IF m.mode = 0
                      THEN <<ConflictStart>> \o SubSeq(ours, m.i1 + 1, m.i1 + m.chg1)
                           \o <<ConflictMiddle>>
                           \o SubSeq(theirs, m.i2 + 1, m.i2 + m.chg2)
                           \o <<ConflictEnd>>
                      ELSE SubSeq(theirs, m.i2 + 1, m.i2 + m.chg2))
                  \o xdl_fill_merge_buffer(ours, theirs, Tail(ms), m.i1 + m.chg1)

\* the merges xdl_merge arrives at for the lines ours, base, theirs
xdl_merge(ours, base, theirs) ==
    xdl_simplify_merge(ours,
        xdl_refine_conflicts(ours, theirs,
            xdl_do_merge(ours, theirs, xdl_diff(base, ours), xdl_diff(base, theirs),
                         Len(ours) - Len(base), Len(theirs) - Len(base), <<>>)),
        <<>>)

\* git merge-file ours base theirs: the new text of ours
merge_file(ours, base, theirs) ==
    LET o == FileLines(ours)
        t == FileLines(theirs)
    IN  FileText(xdl_fill_merge_buffer(o, t, xdl_merge(o, FileLines(base), t), 0))

\* ------------------------------------------------------------------------
\* The server: what the API returns for the item (gl.py:332 get) and what a
\* mutation request (gl.py:327-365) does to it
\* ------------------------------------------------------------------------
\* a note as the API returns it; an anchored note has a position and a commit
note(id, author, body, resolved, anchored) ==
    [id |-> id, author |-> author, body |-> body, resolved |-> resolved,
     position |-> IF anchored
                  THEN Some([old_path |-> <<"f">>, new_path |-> <<"f">>,
                             old_line |-> Absent, new_line |-> Some(2)])
                  ELSE Absent,
     commit_id |-> IF anchored THEN Some(<<"c">>) ELSE Absent,
     noteable_iid |-> 7]

\* the threads of a list, sorted out by a test on the first note
threads_where(discussions, test(_)) ==
    SelectSeq(discussions, LAMBDA d : test(discussion_notes(d)[1]))

\* get_discussions, were the two GitHub endpoints to return every comment
get_discussions_unsplit(rem, is_mr) == rem.discussions

\* GET <what>/<id>/discussions: on GitHub the issue comments come from the
\* issues endpoint and the review comments from the pulls endpoint
get_discussions(rem, is_mr) ==
    IF ~GITHUB THEN rem.discussions
    ELSE IF is_mr THEN threads_where(rem.discussions, LAMBDA n : n.commit_id # Absent)
    ELSE threads_where(rem.discussions, LAMBDA n : n.commit_id = Absent)

\* the note a POST creates: the next id, the author who posts, the body
created_note(rem, author, body, like) ==
    [like EXCEPT !.id = rem.next, !.author = author, !.body = body]

\* POST .../discussions (gl.py:1007): a new thread at the end of the list; a
\* thread of a GitLab merge request can be resolved, and is not yet
create_discussion(rem, is_mr, author, body) ==
    LET n == created_note(rem, author, body,
                note(0, <<>>, <<>>,
                     IF is_mr /\ ~GITHUB THEN Some(FALSE) ELSE Absent, FALSE))
    IN  [rem EXCEPT !.next = @ + 1,
                    !.discussions = Append(@,
                        [id |-> IF GITHUB THEN n.id ELSE Key(str(n.id)[1]),
                         notes |-> <<n>>])]

\* POST .../discussions/<id>/notes (gl.py:1024): a note at the end of the
\* thread; on GitHub a review comment of its own in reply to comment k
create_reply(rem, k, author, body) ==
    LET n == created_note(rem, author, body, discussion_notes(rem.discussions[k])[1])
    IN  IF GITHUB
        THEN [rem EXCEPT !.next = @ + 1,
                         !.discussions = Append(@, [id |-> n.id, notes |-> <<n>>])]
        ELSE [rem EXCEPT !.next = @ + 1,
                         !.discussions[k].notes = Append(@, n)]

\* PUT .../notes/<id> (gl.py:1052), PATCH .../comments/<id> (gl.py:1046)
update_note(rem, k, id, body) ==
    [rem EXCEPT !.discussions[k].notes =
        [j \in 1..Len(@) |-> IF @[j].id = id THEN [@[j] EXCEPT !.body = body] ELSE @[j]]]

\* DELETE .../notes/<id> (gl.py:968-972): a thread without notes is gone
delete_note(rem, k, id) ==
    LET rest == SelectSeq(rem.discussions[k].notes, LAMBDA n : n.id # id)
    IN  [rem EXCEPT !.discussions =
            IF rest = <<>>
            THEN SubSeq(@, 1, k - 1) \o SubSeq(@, k + 1, Len(@))
            ELSE [@ EXCEPT ![k].notes = rest]]

\* PUT .../discussions/<id>?resolved= (gl.py:943-958)
set_resolved(rem, k, b) ==
    [rem EXCEPT !.discussions[k].notes =
        [j \in 1..Len(@) |-> [@[j] EXCEPT !.resolved = Some(b)]]]

\* POST .../discussions with a position (gl.py:1292): a new thread on the
\* line of the diff the position names
create_diff_discussion(rem, data) ==
    LET n == [created_note(rem, GITLAB_USER, data.body,
                           note(0, <<>>, <<>>, Some(FALSE), TRUE))
                EXCEPT !.commit_id = Some(data.commit_id),
                       !.position = Some([old_path |-> data.old_path,
                                          new_path |-> data.new_path,
                                          old_line |-> data.old_line,
                                          new_line |-> data.new_line])]
    IN  [rem EXCEPT !.next = @ + 1,
                    !.discussions = Append(@, [id |-> Key(str(n.id)[1]),
                                               notes |-> <<n>>])]

\* POST .../reviews (gl.py:1254): a review comment per entry, each at the
\* position of the diff the entry names ("original_position" and "position"
\* of the comment), on the reviewed commit
RECURSIVE create_review(_, _)
create_review(rem, comments) ==
    IF comments = <<>> THEN rem
    ELSE LET c == comments[1]
             n == [created_note(rem, GITLAB_USER, c.body,
                                note(0, <<>>, <<>>, Absent, TRUE))
                     EXCEPT !.position = Some([old_path |-> c.path, new_path |-> c.path,
                                               old_line |-> Some(c.position),
                                               new_line |-> Some(c.position)])]
         IN  create_review([rem EXCEPT !.next = @ + 1,
                                       !.discussions = Append(@, [id |-> n.id,
                                                                  notes |-> <<n>>])],
                           Tail(comments))

\* gl.py:284 gitlab_request for one mutation request q: the item after it,
\* or Absent when the server answers with an error (no such thread or note)
gitlab_request(rem, is_mr, q) ==
    LET at == IF GITHUB
              THEN (IF q.note = Absent THEN Absent ELSE Find(rem.discussions, q.note[1]))
              ELSE Find(rem.discussions, q.discussion)
        k == at[1]
        has_note == /\ at # Absent
                    /\ q.note # Absent
                    /\ \E j \in 1..Len(rem.discussions[k].notes) :
                            rem.discussions[k].notes[j].id = q.note[1]
    IN  CASE q.op = "put" ->
                Some([rem EXCEPT !.thing =
                    [f \in DOMAIN @ |-> IF f \in DOMAIN q.body[1] THEN q.body[1][f] ELSE @[f]]])
          [] q.op = "create_discussion" -> Some(create_discussion(rem, is_mr, GITLAB_USER, q.body[1]))
          [] q.op = "create_diff_discussion" -> Some(create_diff_discussion(rem, q.body[1]))
          [] q.op = "create_review" ->
                IF \E i \in 1..Len(q.body[1]) : q.body[1][i].position < 1 THEN Absent
                ELSE Some(create_review(rem, q.body[1]))
          [] q.op = "close" -> Some([rem EXCEPT !.state = "closed"])
          [] q.op = "merge" -> Some([rem EXCEPT !.state = "merged"])
          [] q.op = "create_reply" ->
                IF has_note THEN Some(create_reply(rem, k, GITLAB_USER, q.body[1])) ELSE Absent
          [] q.op = "update_note" ->
                IF has_note THEN Some(update_note(rem, k, q.note[1], q.body[1])) ELSE Absent
          [] q.op = "delete" ->
                IF has_note THEN Some(delete_note(rem, k, q.note[1])) ELSE Absent
          [] q.op = "resolve" ->
                IF at # Absent THEN Some(set_resolved(rem, k, TRUE)) ELSE Absent
          [] q.op = "unresolve" ->
                IF at # Absent THEN Some(set_resolved(rem, k, FALSE)) ELSE Absent

\* the requests of a submit reach the server one by one, in order, until one
\* fails (gl.py:321 "assert r.ok"); failed is the index of that one, or 0
RECURSIVE deliver(_, _, _, _)
deliver(rem, is_mr, reqs, k) ==
    IF k > Len(reqs) THEN [remote |-> rem, failed |-> 0]
    ELSE LET r == gitlab_request(rem, is_mr, reqs[k])
         IN  IF r = Absent THEN [remote |-> rem, failed |-> k]
             ELSE deliver(r[1], is_mr, reqs, k + 1)

\* ------------------------------------------------------------------------
\* The item directory and the two commands (gl.py:527-766, 1061-1105)
\* ------------------------------------------------------------------------
\* gl.py:235 branch_mrdir, gl.py:276 issue_dir: no file exists before the
\* first fetch, nor does the directory itself (".")
NoFiles ==
    [f \in {".", "comments.gl", "pristine-comments.gl", "todo.gl", "pristine-todo.gl",
            "resolved.gl", "meta.gl", "review.gl"} |-> Absent]

\* gl.py:654, 681, 1189 mkdir(exist_ok=True, parents=True)
mkdir(fs) == [fs EXCEPT !["."] = Some(<<>>)]

\* gl.py:368 load_discussions: [] when nothing was fetched yet
load_discussions(snap) == IF snap = Absent THEN <<>> ELSE snap[1]

\* gl.py:404 update_global(what, thing): the entry of the cached list
update_global(t, rem) == IF DRY_RUN THEN t ELSE rem.thing

\* a fetch that writes the pristine file before it merges: the merge base is
\* the new render
merge_fetched_base_overwritten(fs, working, pristine, text) ==
    IF fs[working] # Absent
    THEN [fs EXCEPT ![working] = Some(merge_file(fs[working][1], text, text)),
                    ![pristine] = Some(text)]
    ELSE [fs EXCEPT ![working] = Some(text), ![pristine] = Some(text)]

\* a fetch that takes the server's side: the working file is the new render
merge_fetched_takes_theirs(fs, working, pristine, text) ==
    [fs EXCEPT ![working] = Some(text), ![pristine] = Some(text)]

\* gl.py:660-675 and gl.py:708-721: the new render becomes the pristine file;
\* the working file is seeded with it or merged with it
merge_fetched(fs, working, pristine, text) ==
    IF fs[working] # Absent
    THEN [fs EXCEPT ![working] = Some(merge_file(fs[working][1], fs[pristine][1], text)),
                    ![pristine] = Some(text)]
    ELSE [fs EXCEPT ![working] = Some(text), ![pristine] = Some(text)]

\* gl.py:650 fetch_issue_data: the snapshot file and the files afterwards
fetch_issue_data(t, rem, snap, fs) ==
    LET got == IF DRY_RUN THEN Absent ELSE Some(get_discussions(rem, FALSE))
        discussions == IF got # Absent THEN got[1] ELSE load_discussions(snap)
        comments == metadata_header(t) \o show_discussion(discussions)
                    \o MARKER \o <<NL>>
        done(error) ==
            [snapshot |-> IF got # Absent THEN got ELSE snap,
             error |-> error,
             files |-> IF error # "" THEN mkdir(fs)
                       ELSE merge_fetched(mkdir(fs), "comments.gl", "pristine-comments.gl",
                                          comments)]
    IN  done(show_error(discussions))

\* gl.py:678 fetch_mr_data
fetch_mr_data(t, rem, snap, fs) ==
    IF DRY_RUN THEN [snapshot |-> snap, error |-> "", files |-> mkdir(fs)]
    ELSE LET pulls == get_discussions(rem, TRUE)
             discussions == IF GITHUB THEN get_discussions(rem, FALSE) \o pulls
                            ELSE pulls
             unresolvable ==
                IF GITHUB THEN get_discussions(rem, FALSE)
                ELSE threads_where(discussions, LAMBDA n : n.resolved = Absent)
             todo ==
                IF GITHUB THEN pulls
                ELSE threads_where(discussions, LAMBDA n : n.resolved = Some(FALSE))
             resolved ==
                IF GITHUB THEN <<>>
                ELSE threads_where(discussions, LAMBDA n : n.resolved = Some(TRUE))
             \* the files after show_discussion ended with the exceptions e
             \* for the three lists: what is written before the first one
             done(e, fs1) ==
                [snapshot |-> Some(discussions),
                 error |-> IF e[1] # "" THEN e[1] ELSE IF e[2] # "" THEN e[2] ELSE e[3],
                 files |-> IF e[1] # "" THEN mkdir(fs)
                           ELSE [f \in DOMAIN fs1 |->
                                    IF f = "resolved.gl" /\ e[2] = ""
                                    THEN Some(show_discussion(resolved))
                                    ELSE IF f = "meta.gl" /\ e[2] = "" /\ e[3] = ""
                                    THEN Some(metadata_header(t)
                                              \o show_discussion(unresolvable))
                                    ELSE fs1[f]]]
         IN  done(<<show_error(todo), show_error(resolved), show_error(unresolvable)>>,
                  merge_fetched(mkdir(fs), "todo.gl", "pristine-todo.gl",
                                show_discussion(todo) \o MARKER \o <<NL>>))

\* gl.py:1203 submit_review: without a review.gl there is nothing to send
\* and the result is None
submit_review(fs) == fs["review.gl"] # Absent

\* the length of the longest run of characters outside stops at s[k], s[k+1], ...
RunUntil(s, k, stops) ==
    LET stop == {i \in k..Len(s) : s[i] \in stops}
    IN  IF stop = {} THEN Len(s) - k + 1
        ELSE (CHOOSE i \in stop : \A j \in stop : i <= j) - k

\* ^MARKER (\S+) ([^:]+):(\d+) ([ +-]) (\d+)   gl.py:1211: the groups, and
\* whether the row matches
review_match(row) ==
    LET groups(c, cl, f, fl, n, nl, o, ol) ==
            IF /\ startswith(row, MARKER \o <<" ">>)
               /\ cl >= 1 /\ Len(row) >= c + cl /\ row[c + cl] = " "
               /\ fl >= 1 /\ Len(row) >= f + fl /\ row[f + fl] = ":"
               /\ nl >= 1 /\ Len(row) >= n + nl + 2
               /\ row[n + nl] = " " /\ row[n + nl + 1] \in {" ", "+", "-"}
               /\ row[n + nl + 2] = " "
               /\ ol >= 1
            THEN [ok |-> TRUE,
                  commit |-> SubSeq(row, c, c + cl - 1),
                  file |-> SubSeq(row, f, f + fl - 1),
                  new_line |-> SubSeq(row, n, n + nl - 1),
                  line_type |-> SubSeq(row, n + nl + 1, n + nl + 1),
                  old_line |-> SubSeq(row, o, o + ol - 1)]
            ELSE [ok |-> FALSE]
        old(c, cl, f, fl, n, nl, o) == groups(c, cl, f, fl, n, nl, o, Run(row, o, Digits))
        type(c, cl, f, fl, n, nl) == old(c, cl, f, fl, n, nl, n + nl + 3)
        new(c, cl, f, fl, n) == type(c, cl, f, fl, n, Run(row, n, Digits))
        colon(c, cl, f, fl) == new(c, cl, f, fl, f + fl + 1)
        file(c, cl, f) == colon(c, cl, f, RunUntil(row, f, {":"}))
        commit(c, cl) == file(c, cl, c + cl + 1)
    IN  commit(3, RunUntil(row, 3, Whitespace))

\* review_rows, were the context rows below a draft's header row not
\* skipped
RECURSIVE review_rows_context_kept(_, _, _, _)
review_rows_context_kept(rows, k, state, discussions) ==
    LET body(st) ==
            IF st >= 2 /\ ~(st = 2 /\ rows[k] = <<>>)
            THEN review_rows_context_kept(rows, k + 1, 3,
                    [discussions EXCEPT ![Len(discussions)].body = @ \o rows[k] \o <<NL>>])
            ELSE review_rows_context_kept(rows, k + 1, st, discussions)
        step(r) ==
            IF r.ok
            THEN review_rows_context_kept(rows, k + 1, 1,
                    Append(discussions,
                           [commit |-> r.commit, file |-> r.file,
                            line_type |-> r.line_type[1],
                            old_line |-> int(r.old_line), new_line |-> int(r.new_line),
                            body |-> <<>>]))
            ELSE body(IF state = 1 THEN 2 ELSE state)
    IN  IF k > Len(rows) THEN discussions
        ELSE step(review_match(rows[k]))

\* gl.py:1210-1235 the drafts of the rows of review.gl from row k on; state
\* 1 skips the context rows of a draft, state 2 the blank row after them
RECURSIVE review_rows(_, _, _, _)
review_rows(rows, k, state, discussions) ==
    LET body(st) ==
            IF st >= 2 /\ ~(st = 2 /\ rows[k] = <<>>)
            THEN review_rows(rows, k + 1, 3,
                    [discussions EXCEPT ![Len(discussions)].body = @ \o rows[k] \o <<NL>>])
            ELSE review_rows(rows, k + 1, st, discussions)
        step(r) ==
            IF r.ok
            THEN review_rows(rows, k + 1, 1,
                    Append(discussions,
                           [commit |-> r.commit, file |-> r.file,
                            line_type |-> r.line_type[1],
                            old_line |-> int(r.old_line), new_line |-> int(r.new_line),
                            body |-> <<>>]))
            ELSE IF state = 1 /\ context_match(rows[k])
            THEN review_rows(rows, k + 1, 1, discussions)
            ELSE body(IF state = 1 THEN 2 ELSE state)
    IN  IF k > Len(rows) THEN discussions
        ELSE step(review_match(rows[k]))

\* gl.py:1259 THE_REPOSITORY.rev_parse(f"{commit}~"): the first parent
rev_parse_parent(commit) == THE_PARENT

\* review_data with both lines sent whatever the line type is
review_data_both_lines(d) ==
    [body |-> d.body, commit_id |-> d.commit,
     base_sha |-> rev_parse_parent(d.commit),
     start_sha |-> rev_parse_parent(d.commit),
     head_sha |-> d.commit,
     old_path |-> d.file, new_path |-> d.file,
     old_line |-> Some(d.old_line),
     new_line |-> Some(d.new_line),
     position_type |-> "text"]

\* gl.py:1264-1291 the data of the request for one draft of the GitLab dialect
review_data(d) ==
    [body |-> d.body, commit_id |-> d.commit,
     base_sha |-> rev_parse_parent(d.commit),
     start_sha |-> rev_parse_parent(d.commit),
     head_sha |-> d.commit,
     old_path |-> d.file, new_path |-> d.file,
     old_line |-> IF d.line_type = "+" THEN Absent ELSE Some(d.old_line),
     new_line |-> IF d.line_type = "-" THEN Absent ELSE Some(d.new_line),
     position_type |-> "text"]

\* gl.py:1203-1298 submit_review for an existing review.gl: the exception
\* that ends it, or the requests it issues: on GitHub one review with a
\* comment per draft, else a discussion per draft
\* (cancelreview, gl.py:1239 and 1615-1625, deletes the pending reviews; a
\* review posted with the event COMMENT is never pending, so none is deleted)
review_requests(t, fs) ==
    LET of(discussions) ==
            IF GITHUB
            THEN [error |-> "",
                  log |-> IF discussions = <<>> THEN <<>>
                          ELSE <<Req("create_review", t.iid, Absent, Absent,
                                     Some([i \in 1..Len(discussions) |->
                                            [body |-> discussions[i].body,
                                             path |-> discussions[i].file,
                                             position |-> discussions[i].old_line]]))>>]
            ELSE IF discussions # <<>> /\ repository.commits = "nowhere"
            THEN [error |-> "BadName", log |-> <<>>]
            ELSE [error |-> "",
                  log |-> [i \in 1..Len(discussions) |->
                            Req("create_diff_discussion", t.iid, Absent, Absent,
                                Some(review_data(discussions[i])))]]
    IN  of(review_rows(splitlines(fs["review.gl"][1]), 1, 0, <<>>))

\* ------------------------------------------------------------------------
\* cmd_discuss (gl.py:1108-1200)
\* ------------------------------------------------------------------------
DevNull == <<"/", "d", "e", "v", "/", "n", "u", "l", "l">>

\* str(n) for an int n
str_int(n) == IF n < 0 THEN <<"-">> \o str(0 - n) ELSE str(n)

\* gl.py:1132-1141 the inner loop over the rows k, k+1, ... of a hunk: the
\* count, and whether the row of the target was met
RECURSIVE count_rows(_, _, _, _, _, _)
count_rows(hunk, k, github_line, line_type, old_line, new_line) ==
    IF k > Len(hunk) THEN [github_line |-> github_line, done |-> FALSE]
    ELSE IF (IF line_type = "-" THEN hunk[k].source_line_no = Some(old_line)
             ELSE hunk[k].target_line_no = Some(new_line))
    THEN [github_line |-> github_line + 1, done |-> TRUE]
    ELSE count_rows(hunk, k + 1, github_line + 1, line_type, old_line, new_line)

\* gl.py:1131 the loop over the hunks from hunk h on without the count of
\* gl.py:1144
RECURSIVE count_hunks_no_header(_, _, _, _, _, _)
count_hunks_no_header(hunks, h, github_line, line_type, old_line, new_line) ==
    LET next(r) == IF r.done THEN r.github_line
                   ELSE count_hunks_no_header(hunks, h + 1, r.github_line,
                                              line_type, old_line, new_line)
    IN  IF h > Len(hunks) THEN github_line
        ELSE next(count_rows(hunks[h], 1, github_line, line_type, old_line, new_line))

\* gl.py:1131-1144 the loop over the hunks from hunk h on: a hunk that ends
\* without the target counts one more
RECURSIVE count_hunks(_, _, _, _, _, _)
count_hunks(hunks, h, github_line, line_type, old_line, new_line) ==
    LET next(r) == IF r.done THEN r.github_line
                   ELSE count_hunks(hunks, h + 1, r.github_line + 1,
                                    line_type, old_line, new_line)
    IN  IF h > Len(hunks) THEN github_line
        ELSE next(count_rows(hunks[h], 1, github_line, line_type, old_line, new_line))

\* gl.py:1153-1161 the inner loop over the rows k, k+1, ... of a hunk: the
\* delta, whether the loop was left, and the last row it looked at
RECURSIVE delta_rows(_, _, _, _)
delta_rows(hunk, k, delta, github_line) ==
    IF k > Len(hunk) THEN [delta |-> delta, done |-> FALSE, line |-> hunk[Len(hunk)]]
    ELSE IF is_added(hunk[k]) THEN delta_rows(hunk, k + 1, delta + 1, github_line)
    ELSE IF is_removed(hunk[k]) THEN delta_rows(hunk, k + 1, delta - 1, github_line)
    ELSE IF hunk[k].target_line_no # Absent /\ hunk[k].target_line_no[1] >= github_line
    THEN [delta |-> delta, done |-> TRUE, line |-> hunk[k]]
    ELSE delta_rows(hunk, k + 1, delta, github_line)

\* gl.py:1152-1165 the loop over the hunks from hunk h on
RECURSIVE delta_hunks(_, _, _, _)
delta_hunks(hunks, h, delta, github_line) ==
    LET next(r) ==
            IF r.line.target_line_no # Absent /\ r.line.target_line_no[1] >= github_line
            THEN r.delta
            ELSE IF r.done THEN r.delta
            ELSE delta_hunks(hunks, h + 1, r.delta, github_line)
    IN  IF h > Len(hunks) THEN delta
        ELSE next(delta_rows(hunks[h], 1, delta, github_line))

\* gl.py:1169-1181 the rows of the hunk up to the first one at or after the
\* line, on the old side for a deleted file, else on the new side
draft_rows(hunk, new_file, old_line, new_line) ==
    LET hit == {i \in 1..Len(hunk) :
                    IF new_file = DevNull
                    THEN /\ hunk[i].source_line_no # Absent
                         /\ hunk[i].source_line_no[1] >= old_line
                    ELSE /\ hunk[i].target_line_no # Absent
                         /\ hunk[i].target_line_no[1] >= new_line}
    IN  IF hit = {} THEN <<>>
        ELSE SubSeq(hunk, 1, CHOOSE i \in hit : \A j \in hit : i <= j)

\* gl.py:1182-1183 rows[-DIFF_CONTEXT_LINES:] as text
draft_context(rows) ==
    Concat([i \in 1..Min(Len(rows), DIFF_CONTEXT_LINES) |->
        LET r == rows[Len(rows) - Min(Len(rows), DIFF_CONTEXT_LINES) + i]
        IN  <<r.line_type>> \o r.value])

UndecodableCommit == <<" ", "?", " ", "U", "n", "i", "c", "o", "d", "e", "E", "n", "c", "o", "d", "e", "E", "r", "r", "o", "r", " ">> \o THE_COMMIT \o <<NL>>

\* gl.py:1123-1166 the position of the GitHub dialect for the file: the
\* exception that ends the command, or the count, the delta and their sum
github_position(line_type, old_line, new_line) ==
    LET at(github_line, delta) ==
            [error |-> "", github_line |-> github_line, delta |-> delta,
             old_line |-> github_line + delta]
        counted(github_line, tail) ==
            at(github_line,
               delta_hunks(IF tail.error = "StopIteration" THEN <<>> ELSE tail.hunks,
                           1, 0, github_line))
        of(range) ==
            IF fetch_commit # "" THEN [error |-> fetch_commit]
            ELSE IF range.error # "" THEN [error |-> range.error]
            ELSE counted(count_hunks(range.hunks, 1, 0, line_type, old_line, new_line),
                         diff_for_newfile(repository.tail))
    IN  of(diff_for_newfile(repository.range))

\* gl.py:1108-1195 cmd_discuss up to the editor, for a merge request that
\* was found: the exception that ends it, or the draft it appends to
\* review.gl
discuss(old_file, new_file, line_type, old_line, new_line) ==
    LET file == IF new_file = DevNull THEN old_file ELSE new_file
        written(gh, context) ==
            [error |-> "", file |-> file, line_type |-> line_type,
             old_line |-> gh.old_line, new_line |-> new_line,
             github_line |-> gh.github_line, delta |-> gh.delta,
             context |-> context,
             text |-> <<NL>> \o MARKER \o <<" ">> \o THE_COMMIT \o <<" ">> \o file
                      \o <<":">> \o str_int(new_line) \o <<" ", line_type, " ">>
                      \o str_int(gh.old_line) \o <<NL>> \o context \o <<NL>>]
        of(gh, f) ==
            IF gh.error # "" THEN [error |-> gh.error]
            ELSE IF f.error = "UnicodeEncodeError" THEN written(gh, UndecodableCommit)
            ELSE IF f.error # "" THEN [error |-> f.error]
            ELSE IF f.hunks = <<>> THEN [error |-> "IndexError"]
            ELSE written(gh, draft_context(draft_rows(f.hunks[1], new_file,
                                                      gh.old_line, new_line)))
    IN  of(IF GITHUB THEN github_position(line_type, old_line, new_line)
           ELSE [error |-> "", github_line |-> 0, delta |-> 0, old_line |-> old_line],
           diff_for_newfile(repository.commit))

\* gl.py:1065-1070 and gl.py:1092-1094 the text a submit reads: Absent when
\* a file is missing (FileNotFoundError: the rows are empty then)
read_files(fs, is_mr) ==
    IF ~is_mr THEN fs["comments.gl"]
    ELSE IF \E f \in {"meta.gl", "resolved.gl", "todo.gl"} : fs[f] = Absent THEN Absent
    ELSE Some(fs["meta.gl"][1] \o fs["resolved.gl"][1] \o fs["todo.gl"][1])

\* what submit_review does after a submit_discussion that ended with res
\* (gl.py:1083): nothing for an issue, after an exception, or without a
\* review.gl
reviewed(res, t, fs, is_mr) ==
    IF is_mr /\ res.error = "" /\ submit_review(fs) THEN review_requests(t, fs)
    ELSE [error |-> "", log |-> <<>>]

\* submitted, were the copy of the pristine file over the working file
\* (gl.py:1078-1082, 1100-1104) not kept from a dry run
submitted_copies_in_dry_run(res, rv, d, fs, is_mr, working, pristine) ==
    LET copied == /\ res.error = "" /\ (d.failed = 0 \/ d.failed > Len(res.log))
                  /\ fs[pristine] # Absent
        done(all, error, ran) ==
            [first |-> res.changed,
             changed |-> res.changed \/ ran,
             desc_changed |-> res.desc_changed,
             error |-> error,
             log |-> IF d.failed > 0 THEN SubSeq(all, 1, d.failed) ELSE all,
             data |-> res.data, remote |-> d.remote,
             files |-> [f \in DOMAIN fs |->
                            IF f = working /\ copied THEN fs[pristine]
                            ELSE IF f = "review.gl" /\ ran /\ ~DRY_RUN THEN Absent
                            ELSE fs[f]]]
        ended(error) == done(res.log \o rv.log, error, is_mr /\ error = "" /\ submit_review(fs))
    IN  ended(IF d.failed > 0 THEN "AssertionError"
              ELSE IF res.error # "" THEN res.error ELSE rv.error)

\* what a submit did: the first flag of submit_discussion, the flags the
\* caller gets, the exception if one ended it, the requests issued (those
\* of submit_discussion, then those of submit_review), the header fields
\* found changed, the server and the files afterwards: the working file is
\* the pristine file once submit_discussion is through (gl.py:1078-1082),
\* review.gl is removed once submit_review is (gl.py:1296-1297)
submitted(res, rv, d, fs, is_mr, working, pristine) ==
    LET copied == /\ res.error = "" /\ (d.failed = 0 \/ d.failed > Len(res.log))
                  /\ ~DRY_RUN /\ fs[pristine] # Absent
        done(all, error, ran) ==
            [first |-> res.changed,
             changed |-> res.changed \/ ran,
             desc_changed |-> res.desc_changed,
             error |-> error,
             log |-> IF d.failed > 0 THEN SubSeq(all, 1, d.failed) ELSE all,
             data |-> res.data, remote |-> d.remote,
             files |-> [f \in DOMAIN fs |->
                            IF f = working /\ copied THEN fs[pristine]
                            ELSE IF f = "review.gl" /\ ran /\ ~DRY_RUN THEN Absent
                            ELSE fs[f]]]
        ended(error) == done(res.log \o rv.log, error, is_mr /\ error = "" /\ submit_review(fs))
    IN  ended(IF d.failed > 0 THEN "AssertionError"
              ELSE IF res.error # "" THEN res.error ELSE rv.error)

\* the requests issued against the server rem (none in a dry run)
sent(reqs, rem, is_mr) ==
    IF DRY_RUN THEN [remote |-> rem, failed |-> 0]
    ELSE deliver(rem, is_mr, reqs, 1)

\* the rows of a text a submit reads
rows_of(text) == IF text = Absent THEN <<>> ELSE splitlines(text[1])

\* gl.py:1088 submit_issue_data
submit_issue_data(t, rem, snap, fs) ==
    LET done(res) == submitted(res, reviewed(res, t, fs, FALSE),
                               sent(res.log, rem, FALSE), fs, FALSE,
                               "comments.gl", "pristine-comments.gl")
    IN  done(submit_discussion(load_discussions(snap), rows_of(read_files(fs, FALSE)),
                               FALSE, t, rem.thing))

\* gl.py:1061 submit_mr_data
submit_mr_data(t, rem, snap, fs) ==
    LET both(res, rv) == submitted(res, rv, sent(res.log \o rv.log, rem, TRUE), fs, TRUE,
                                   "todo.gl", "pristine-todo.gl")
        done(res) == both(res, reviewed(res, t, fs, TRUE))
    IN  done(submit_discussion(load_discussions(snap), rows_of(read_files(fs, TRUE)),
                               TRUE, t, rem.thing))

\* ------------------------------------------------------------------------
\* Bounds and the bounded world
\* ------------------------------------------------------------------------
\* submits that change the server, per run
MaxSubmits == 2

\* lines the user types, per run
MaxEdits == 1

\* changes other people make on the server, per run
MaxRemoteChanges == 1

Bob == <<"b", "o", "b">>

\* a username with a character outside \w
Dotted == <<"a", ".", "b">>

Hi == <<"h", "i">>

\* a body of three lines, the second blank, with CRLF line ends
Multi == <<"l", "1", CR, NL, CR, NL, "l", "3">>

\* review drafts, per run
MaxDrafts == 1

\* the line numbers a draft is asked for
MaxLine == 7

\* the lines a diff leaves out between two hunks
Gap == 1

\* the texts of the rows of a hunk, by their place in it
RowNames == <<"a", "b", "c", "d", "e", "g", "h", "i">>

NoNewline == <<" ", "N", "o", " ", "n", "e", "w", "l", "i", "n", "e", " ", "a", "t", " ", "e", "n", "d", " ", "o", "f", " ", "f", "i", "l", "e">>

\* the hunk of a diff with full context: it starts at line 1 on both sides
full_hunk(types) ==
    unidiff_hunk(types,
                 [i \in 1..Len(types) |->
                    IF types[i] = "\\" THEN NoNewline ELSE <<RowNames[i]>>],
                 1, 1)

\* the hunks of a diff with a context of three lines: each starts Gap lines
\* after the one before it ends
RECURSIVE hunks_from(_, _, _)
hunks_from(types, source_start, target_start) ==
    IF types = <<>> THEN <<>>
    ELSE LET h == unidiff_hunk(types[1],
                        [i \in 1..Len(types[1]) |->
                            IF types[1][i] = "\\" THEN NoNewline ELSE <<RowNames[i]>>],
                        source_start, target_start)
             ns == Cardinality({i \in 1..Len(h) : h[i].source_line_no # Absent})
             nt == Cardinality({i \in 1..Len(h) : h[i].target_line_no # Absent})
         IN  <<h>> \o hunks_from(Tail(types), source_start + ns + Gap,
                                 target_start + nt + Gap)

\* the repository today's commands find: the commit is there, its diff has
\* one hunk for the file, and so has the diff of the review range; nothing
\* changed the file after the commit
LocalHunk == unidiff_hunk(<<" ", "-", "+", " ">>,
                          << <<"a">>, <<"d">>, <<"b">>, <<"c">> >>, 1, 1)

LocalRepo ==
    [commits |-> "local", diffable |-> "",
     commit |-> Some(<<LocalHunk>>), range |-> Some(<<LocalHunk>>), tail |-> Absent]

\* the diffs of the reviewed commit for the file: every hunk of up to two
\* rows, some longer ones, some longer than the context, one of a file
\* without a line end; a file the diff does not name; a file whose entry
\* has no hunk
CommitDiffs ==
    { Some(<<full_hunk(ts)>>) :
        ts \in UNION { [1..n -> {" ", "+", "-"}] : n \in 1..2 }
               \cup { <<" ", "+", " ">>, <<" ", "-", " ">>, <<"-", "+", " ">>,
                      <<" ", "-", "+">>, <<"+", "+", "+">>, <<" ", " ", " ", " ", " ", " ", " ">>,
                      <<" ", " ", " ", " ", " ", "+", " ">>,
                      <<" ", "-", "-", "+", " ", " ", " ", " ">>,
                      <<"-", "-", "-", "-", "-", "-">>,
                      <<" ", "-", "\\", "+">> } }
    \cup {Absent, Some(<<>>)}

\* the diffs of the review range for the file, with a context of three
RangeDiffs ==
    { Some(hunks_from(ts, 1, 1)) :
        ts \in { << <<" ", "+", " ">> >>,
                 << <<" ", "-", "+", " ">> >>,
                 << <<" ", "-", "\\", "+">> >>,
                 << <<" ", "+", " ">>, <<" ", "-", " ">> >>,
                 << <<"+">>, <<"-">>, <<"+", " ">> >> } }
    \cup {Absent}

\* the diffs from the reviewed commit to the head of the review range
TailDiffs ==
    { Some(hunks_from(ts, 1, 1)) :
        ts \in { << <<" ", "+", "+", " ">> >>,
                 << <<"+", " ">> >>,
                 << <<" ", "-", " ">> >>,
                 << <<" ", "+">> >>,
                 << <<"-", "-", "-">> >>,
                 << <<"-", "-", " ">>, <<" ", "+">> >> } }
    \cup {Absent}

\* the repositories a review is drafted in: the diff of the commit varies;
\* the commit is missing, or its diff cannot be had; the two diffs of the
\* position of the GitHub dialect vary
DraftRepos(github) ==
    { [LocalRepo EXCEPT !.commits = "nowhere"],
      [LocalRepo EXCEPT !.diffable = "GitCommandError"],
      [LocalRepo EXCEPT !.diffable = "UnicodeEncodeError"] }
    \cup IF github
         THEN { [LocalRepo EXCEPT !.range = r, !.tail = t] :
                    r \in RangeDiffs, t \in TailDiffs }
         ELSE { [LocalRepo EXCEPT !.commit = c] : c \in CommitDiffs }

\* the repositories threads are rendered in
RenderRepos ==
    { [LocalRepo EXCEPT !.commits = "nowhere"],
      [LocalRepo EXCEPT !.diffable = "GitCommandError"],
      [LocalRepo EXCEPT !.diffable = "UnicodeEncodeError"] }
    \cup { [LocalRepo EXCEPT !.commit = c] : c \in CommitDiffs }

\* the anchors of the threads that are rendered: a line of the new file, of
\* the old file, of both, of neither
RenderAnchors ==
    { [old_path |-> THE_FILE, new_path |-> THE_FILE, old_line |-> o, new_line |-> n] :
        o \in {Absent, Some(1), Some(2)}, n \in {Absent, Some(2), Some(6)} }

\* the pairs of an old and a new line number a draft is asked for
DraftLines ==
    { <<o, n>> \in (1..MaxLine) \X (1..MaxLine) : o - n \in {-1, 0, 1} }

\* an issue or merge request as the API returns it
thing_of(is_mr, description, milestone, people, labels, rsb) ==
    [iid |-> 7, title |-> <<"t">>, description |-> description,
     assignees |-> people, reviewers |-> IF is_mr THEN Some(people) ELSE Absent,
     milestone |-> milestone, labels |-> labels,
     source_branch |-> IF is_mr THEN Some(<<"s">>) ELSE Absent,
     target_branch |-> <<"m">>,
     remove_source_branch |-> IF is_mr THEN rsb ELSE Absent]

\* the comments of GitHub: every note is a comment of its own
RECURSIVE as_comments(_)
as_comments(discussions) ==
    IF discussions = <<>> THEN <<>>
    ELSE [j \in 1..Len(discussions[1].notes) |->
            [id |-> discussions[1].notes[j].id, notes |-> <<discussions[1].notes[j]>>]]
         \o as_comments(Tail(discussions))

World(w, github, t, discussions) ==
    [what |-> w, GITHUB |-> github, thing |-> t,
     discussions |-> IF github THEN as_comments(discussions) ELSE discussions]

PlainThing(is_mr) == thing_of(is_mr, Some(<<"d">>), Absent, <<>>, <<>>, Some(TRUE))

\* the items the commands are run on: an issue without a thread, an issue
\* with one, a merge request with a thread in each of its three files
Worlds ==
    { World("issues", FALSE, PlainThing(FALSE), <<>>),
      World("issues", FALSE, PlainThing(FALSE),
            << [id |-> Key("a"),
                notes |-> << note(1, GITLAB_USER, Multi, Absent, FALSE),
                             note(2, Bob, Hi, Absent, FALSE) >>] >>),
      World("merge_requests", FALSE, PlainThing(TRUE),
            << [id |-> Key("a"), notes |-> << note(1, Bob, Hi, Absent, FALSE) >>],
               [id |-> Key("b"), notes |-> << note(2, GITLAB_USER, Multi, Some(FALSE), FALSE) >>],
               [id |-> Key("c"), notes |-> << note(3, GITLAB_USER, Hi, Some(TRUE), FALSE) >>] >>) }

\* the snapshots and items the codec is run on
CodecThings(is_mr) ==
    { thing_of(is_mr, d, m, p, l, r) :
        d \in {Absent, Some(<<"d">>), Some(<<"d", CR, NL, "e">>)},
        m \in {Absent, Some(<<"v">>)},
        p \in {<<>>, <<Bob>>},
        l \in {<<>>, << <<"l">> >>},
        r \in IF is_mr THEN {Absent, Some(FALSE), Some(TRUE)} ELSE {Absent} }

CodecThreads(is_mr) ==
    { << [id |-> Key("a"),
          notes |-> <<note(1, a1, b1, r, anchored)>>
                    \o IF a2 = <<>> THEN <<>>
                       ELSE <<note(2, a2, Hi, r, anchored)>>] >> \o tail :
        a1 \in {GITLAB_USER, Bob, Dotted},
        b1 \in {Hi, Multi},
        a2 \in {<<>>, GITLAB_USER, Bob, Dotted},
        anchored \in BOOLEAN,
        r \in IF is_mr THEN {Absent, Some(FALSE), Some(TRUE)} ELSE {Absent},
        tail \in { <<>>,
                   << [id |-> Key("b"),
                       notes |-> <<note(3, Bob, Hi,
                                        IF is_mr THEN Some(FALSE) ELSE Absent,
                                        FALSE)>>] >> } }

CodecWorlds ==
    UNION { { World(w, g, t, <<>>) : t \in CodecThings(w = "merge_requests") }
            \cup { World(w, g, PlainThing(w = "merge_requests"), d) :
                     d \in CodecThreads(w = "merge_requests") } :
            w \in {"issues", "merge_requests"}, g \in BOOLEAN }

\* the items whose threads the user edits: the issue and the merge request
\* of Worlds that have threads, and their like in the GitHub dialect, where
\* every note is a comment of its own, a review comment when it is anchored
EditWorlds ==
    { w \in Worlds : w.discussions # <<>> }
    \cup { World("issues", TRUE, PlainThing(FALSE),
                 << [id |-> Key("a"),
                     notes |-> << note(1, GITLAB_USER, Hi, Absent, FALSE),
                                  note(2, Bob, Hi, Absent, FALSE) >>] >>),
            World("merge_requests", TRUE, PlainThing(TRUE),
                 << [id |-> Key("a"),
                     notes |-> << note(1, GITLAB_USER, Hi, Absent, TRUE),
                                  note(2, Bob, Hi, Absent, TRUE),
                                  note(3, Bob, Hi, Absent, FALSE) >>] >>) }

\* ------------------------------------------------------------------------
\* The state machine
\* ------------------------------------------------------------------------
\* gl.py:193-197 "git fetch" is run: show_discussion is reached (gl.py:472,
\* 201-202) for a thread with an anchor, and the commit is not in the
\* repository
git_fetched(shown, discussions) ==
    /\ shown
    /\ repository.commits # "local"
    /\ \E i \in 1..Len(discussions) : discussion_notes(discussions[i])[1].position # Absent

\* the record kept of a command
NoOutcome(cmd) ==
    [cmd |-> cmd, error |-> "", changed |-> FALSE, desc_changed |-> FALSE,
     refetched |-> FALSE, first |-> FALSE, W |-> Absent, P |-> Absent,
     data |-> EmptyDict, edits |-> <<>>, unedited |-> FALSE, phase |-> 0,
     known |-> Absent, current |-> Absent, rows |-> <<>>, start |-> 0,
     before |-> Absent, snap |-> Absent, retired |-> FALSE, removed |-> FALSE,
     draft |-> Absent, drafts |-> <<>>, git_fetch |-> FALSE,
     pc |-> "", blessed_sha |-> Absent, pipeline |-> Absent,
     ask |-> Absent, parsed |-> Absent]

\* the cached lists hold the item (gl.py:400), its directory is not there
Start(w, dry) ==
    /\ GITHUB = w.GITHUB
    /\ DRY_RUN = dry
    /\ what = w.what
    /\ remote = [thing |-> w.thing, state |-> "opened",
                 discussions |-> w.discussions, next |-> 4]
    /\ thing = w.thing
    /\ snapshot = Absent
    /\ files = NoFiles
    /\ log = <<>>
    /\ outcome = NoOutcome("init")
    /\ edits = <<>>
    /\ steps = [submits |-> 0, typed |-> 0, remote |-> 0, drafted |-> 0]
    /\ listed = TRUE
    /\ drafts = <<>>

Init == \E w \in Worlds : \E dry \in BOOLEAN : Start(w, dry) /\ repository = LocalRepo

InitCodec == \E w \in CodecWorlds : Start(w, FALSE) /\ repository = LocalRepo

is_mr == what = "merge_requests"

working_path == IF is_mr THEN "todo.gl" ELSE "comments.gl"

pristine_path == IF is_mr THEN "pristine-todo.gl" ELSE "pristine-comments.gl"

\* the text a fetch of the snapshot writes into the files a submit reads, in
\* the order the submit reads them (gl.py:1067-1069, 1092)
rendered(t, discussions) ==
    IF ~is_mr
    THEN metadata_header(t) \o show_discussion(discussions) \o MARKER \o <<NL>>
    ELSE metadata_header(t)
         \o show_discussion(threads_where(discussions, LAMBDA n :
                IF GITHUB THEN n.commit_id = Absent ELSE n.resolved = Absent))
         \o show_discussion(threads_where(discussions, LAMBDA n :
                ~GITHUB /\ n.resolved = Some(TRUE)))
         \o show_discussion(threads_where(discussions, LAMBDA n :
                IF GITHUB THEN n.commit_id # Absent ELSE n.resolved = Some(FALSE)))
         \o MARKER \o <<NL>>

\* gl.py:527 fetch([item]), for the item: update_global, then fetch_issue_data
\* or fetch_mr_data.  An issue that the cached list has lost is fetched all
\* the same and update_global puts it back (gl.py:428-429); for a merge
\* request that the list has lost the list of open merge requests is fetched
\* (gl.py:548-549) and the item is fetched only when that list names it.
fetch ==
    /\ \E l \in {IF listed \/ DRY_RUN THEN listed
                 ELSE IF is_mr THEN remote.state = "opened" ELSE TRUE} :
       \E t \in {IF l THEN update_global(thing, remote) ELSE thing} :
       \E f \in {IF ~l THEN [snapshot |-> snapshot, error |-> "", files |-> files]
                 ELSE IF is_mr THEN fetch_mr_data(t, remote, snapshot, files)
                 ELSE fetch_issue_data(t, remote, snapshot, files)} :
           /\ listed' = l
           /\ thing' = t
           /\ snapshot' = f.snapshot
           /\ files' = f.files
           /\ outcome' = [NoOutcome("fetch") EXCEPT
                            !.error = f.error,
                            !.refetched = l /\ f.error = "",
                            !.git_fetch = git_fetched(l /\ (is_mr => ~DRY_RUN),
                                                      load_discussions(f.snapshot)),
                            !.first = files[working_path] = Absent,
                            !.W = files[working_path],
                            !.P = files[pristine_path],
                            !.phase = IF outcome.phase \in {1, 2, 3} THEN 2 ELSE 0]
    /\ UNCHANGED <<GITHUB, DRY_RUN, what, remote, log, edits, steps, repository, drafts>>

\* gl.py:527 a fetch that obtains the list of open items of the item's kind:
\* fetch([]) for an issue (gl.py:544), which then fetches every open issue
\* (gl.py:555-558); fetch([b]) with a branch b the cached list does not hold
\* for a merge request (gl.py:548-549), which fetches only b (gl.py:551).
\* Nothing in fetch removes a directory.
fetch_open ==
    /\ \E l \in {IF DRY_RUN THEN listed ELSE remote.state = "opened"} :
       \E t \in {IF l /\ ~DRY_RUN THEN remote.thing ELSE thing} :
       \E f \in {IF l /\ ~is_mr THEN fetch_issue_data(t, remote, snapshot, files)
                 ELSE [snapshot |-> snapshot, error |-> "", files |-> files]} :
           /\ listed' = l
           /\ thing' = t
           /\ snapshot' = f.snapshot
           /\ files' = f.files
           /\ outcome' = [NoOutcome("fetch") EXCEPT
                            !.error = f.error,
                            !.refetched = l /\ ~is_mr /\ f.error = "",
                            !.git_fetch = git_fetched(l /\ ~is_mr,
                                                      load_discussions(f.snapshot)),
                            !.first = files[working_path] = Absent,
                            !.W = files[working_path],
                            !.P = files[pristine_path],
                            !.retired = ~l /\ files["."] # Absent,
                            !.phase = IF ~(l /\ ~is_mr) THEN outcome.phase
                                      ELSE IF outcome.phase \in {1, 2, 3} THEN 2 ELSE 0]
    /\ UNCHANGED <<GITHUB, DRY_RUN, what, remote, log, edits, steps, repository, drafts>>

\* gl.py:745-766 what cmd_submit does with the result r of submit_mr_data or
\* submit_issue_data: update_global when the second flag is set, a fetch of
\* the item when the first is
submit_done(r) ==
    \E t \in {IF r.error = "" /\ r.desc_changed
              THEN update_global(thing, r.remote) ELSE thing} :
    \E f \in {IF r.error # "" \/ ~r.changed
              THEN [snapshot |-> snapshot, error |-> "", files |-> r.files]
              ELSE IF is_mr THEN fetch_mr_data(t, r.remote, snapshot, r.files)
              ELSE fetch_issue_data(t, r.remote, snapshot, r.files)} :
        /\ remote' = r.remote
        /\ thing' = t
        /\ snapshot' = f.snapshot
        /\ files' = f.files
        /\ log' = r.log
        /\ edits' = IF r.error = "" /\ ~DRY_RUN THEN <<>> ELSE edits
        /\ steps' = [steps EXCEPT !.submits =
                        IF r.log # <<>> /\ ~DRY_RUN THEN @ + 1 ELSE @]
        /\ drafts' = IF r.files["review.gl"] = Absent THEN <<>> ELSE drafts
        /\ outcome' = [NoOutcome("submit") EXCEPT
                        !.error = IF r.error # "" THEN r.error ELSE f.error,
                        !.changed = r.first,
                        !.desc_changed = r.desc_changed,
                        !.refetched = r.error = "" /\ r.changed /\ f.error = "",
                        !.git_fetch = git_fetched(/\ r.error = "" /\ r.changed
                                                  /\ (is_mr => ~DRY_RUN),
                                                  load_discussions(f.snapshot)),
                        !.drafts = drafts,
                        !.first = r.files[working_path] = Absent,
                        !.W = r.files[working_path],
                        !.P = r.files[pristine_path],
                        !.data = r.data,
                        !.known = Some(thing),
                        !.current = Some(remote.thing),
                        !.rows = rows_of(read_files(files, is_mr)),
                        !.start = parse_metadata_header(
                                      rows_of(read_files(files, is_mr)), thing).j,
                        !.before = files[working_path],
                        !.snap = snapshot,
                        !.edits = SelectSeq(edits, LAMBDA e :
                                    IsLine(FileLines(files[e.file][1]), e.line)),
                        !.unedited =
                            /\ snapshot # Absent
                            /\ read_files(files, is_mr) = Some(rendered(thing, snapshot[1])),
                        !.phase = IF r.error # "" \/ DRY_RUN \/ snapshot = Absent THEN 0
                                  ELSE IF outcome.phase = 2 /\ edits = <<>> THEN 3
                                  ELSE 1]

\* gl.py:736-744, 752-760 cmd_submit finds no entry for the item in the
\* cached list: the item's directory is removed, outside dry-run mode
not_open ==
    \E gone \in {~DRY_RUN /\ files["."] # Absent} :
        /\ files' = IF gone THEN NoFiles ELSE files
        /\ snapshot' = IF gone THEN Absent ELSE snapshot
        /\ edits' = IF gone THEN <<>> ELSE edits
        /\ drafts' = IF gone THEN <<>> ELSE drafts
        /\ log' = <<>>
        /\ outcome' = [NoOutcome("submit") EXCEPT
                        !.error = IF files["."] = Absent THEN "AssertionError" ELSE "",
                        !.removed = gone]
        /\ UNCHANGED <<remote, thing, steps>>

\* gl.py:727 cmd_submit([item]), for the item
cmd_submit ==
    /\ steps.submits < MaxSubmits
    /\ IF listed
       THEN submit_done(IF is_mr THEN submit_mr_data(thing, remote, snapshot, files)
                        ELSE submit_issue_data(thing, remote, snapshot, files))
       ELSE not_open
    /\ UNCHANGED <<GITHUB, DRY_RUN, what, listed, repository>>

\* a line of text a user types
Reply == <<"o", "k">>

\* gl.py:1108 cmd_discuss for the branch of the merge request, the reviewed
\* commit and file; the editor it opens at the end of review.gl is the user
\* typing a body.  lazy_fetch_merge_request (gl.py:434) fetches the list of
\* open merge requests first on GitHub, and else when the cached one does
\* not name the branch.
cmd_discuss ==
    /\ is_mr
    /\ steps.drafted < MaxDrafts
    /\ \E new_file \in {THE_FILE, DevNull} :
       \E line_type \in {" ", "+", "-"} :
       \E lines \in DraftLines :
       \E refreshed \in {~DRY_RUN /\ (GITHUB \/ ~listed)} :
       \E l \in {IF refreshed THEN remote.state = "opened" ELSE listed} :
       \E d \in {IF l THEN discuss(THE_FILE, new_file, line_type, lines[1], lines[2])
                 ELSE [error |-> "StopIteration"]} :
       \E draft \in {IF d.error # "" THEN Absent
                     ELSE Some([new_file |-> new_file, file |-> d.file,
                                line_type |-> line_type,
                                old_line |-> lines[1], new_line |-> lines[2],
                                github_line |-> d.github_line, delta |-> d.delta,
                                position |-> d.old_line, context |-> d.context])} :
           /\ listed' = l
           /\ thing' = IF refreshed /\ l THEN remote.thing ELSE thing
           /\ files' = IF draft = Absent THEN files
                       ELSE [mkdir(files) EXCEPT !["review.gl"] =
                                Some((IF @ = Absent THEN <<>> ELSE @[1])
                                     \o d.text \o Reply \o <<NL>>)]
           /\ drafts' = IF draft = Absent THEN drafts ELSE Append(drafts, draft[1])
           /\ steps' = [steps EXCEPT !.drafted = @ + 1]
           /\ outcome' = [NoOutcome("discuss") EXCEPT
                            !.error = d.error, !.draft = draft,
                            !.before = files["review.gl"],
                            !.git_fetch = l /\ GITHUB /\ repository.commits # "local"]
    /\ UNCHANGED <<GITHUB, DRY_RUN, what, remote, snapshot, log, edits, repository>>

\* the lines a user types into a file
Typed == { Reply, T_r, T_u, T_close, T_delete, T_merge }

\* the user's editor: a line typed into one of the files a submit reads, or
\* a character typed at the end of one of their lines
UserEdit ==
    /\ steps.typed < MaxEdits
    /\ \E f \in IF is_mr THEN {"meta.gl", "resolved.gl", "todo.gl"} ELSE {"comments.gl"} :
        /\ files[f] # Absent
        /\ LET lines == FileLines(files[f][1])
           IN  \E p \in 0..Len(lines) :
               \E l \in Typed \cup {<<>>} :
                   /\ l = <<>> => p > 0
                   /\ LET new == IF l = <<>> THEN lines[p] \o <<"x">> ELSE l
                          text == SubSeq(lines, 1, IF l = <<>> THEN p - 1 ELSE p)
                                  \o <<new>> \o SubSeq(lines, p + 1, Len(lines))
                      IN  /\ files' = [files EXCEPT ![f] = Some(FileText(text))]
                          /\ edits' = Append(edits,
                                [file |-> f, line |-> new, at |-> p, typed |-> l # <<>>])
    /\ steps' = [steps EXCEPT !.typed = @ + 1]
    /\ outcome' = NoOutcome("edit")
    /\ UNCHANGED <<GITHUB, DRY_RUN, what, remote, thing, snapshot, log, listed, repository,
                   drafts>>

\* rows a user types into a thread file: text, the tokens, the sentinel, a
\* note header and a thread header the snapshot does not know, a
\* continuation row
UnknownNoteRow == <<TAB, "[", "9", "]", " ", "x">>

UnknownThreadRow == Key("d")

ContinuationRow == <<TAB, "x">>

EditRows == { Reply, T_r, T_u, T_close, T_delete, MARKER, UnknownNoteRow,
              UnknownThreadRow, ContinuationRow }

\* what the user types in one place: one row, two rows, or new threads
\* with the sentinel between them
Blocks ==
    { <<a>> : a \in EditRows }
    \cup { <<a, b>> : a \in EditRows, b \in EditRows }
    \cup { <<Reply, MARKER, Reply>>, <<Reply, MARKER, <<" ">>, MARKER, Reply>> }

\* the user's editor: a block of rows typed at one place of a file that
\* holds threads
UserTypes ==
    /\ steps.typed < MaxEdits
    /\ \E f \in IF is_mr THEN {"meta.gl", "resolved.gl", "todo.gl"} ELSE {"comments.gl"} :
        /\ files[f] # Absent
        /\ \E lines \in {FileLines(files[f][1])} :
           \E p \in 0..Len(lines) :
           \E block \in Blocks :
                /\ files' = [files EXCEPT ![f] =
                                Some(FileText(SubSeq(lines, 1, p) \o block
                                              \o SubSeq(lines, p + 1, Len(lines))))]
                /\ edits' = edits \o [i \in 1..Len(block) |->
                                        [file |-> f, line |-> block[i], at |-> p + i - 1,
                                         typed |-> TRUE]]
    /\ steps' = [steps EXCEPT !.typed = @ + 1]
    /\ outcome' = NoOutcome("edit")
    /\ UNCHANGED <<GITHUB, DRY_RUN, what, remote, thing, snapshot, log, listed, repository,
                   drafts>>

\* other people at work on the server: a new thread, a note in a thread, a
\* changed note body
RemoteChange ==
    /\ steps.remote < MaxRemoteChanges
    /\ \/ remote' = create_discussion(remote, is_mr, Bob, Hi)
       \/ \E k \in 1..Len(remote.discussions) :
            remote' = create_reply(remote, k, Bob, Hi)
       \/ \E k \in 1..Len(remote.discussions) :
          \E j \in 1..Len(remote.discussions[k].notes) :
            remote' = update_note(remote, k, remote.discussions[k].notes[j].id,
                                  remote.discussions[k].notes[j].body \o <<"y">>)
    /\ steps' = [steps EXCEPT !.remote = @ + 1]
    /\ outcome' = NoOutcome("remote")
    /\ UNCHANGED <<GITHUB, DRY_RUN, what, thing, snapshot, files, log, edits, listed,
                   repository, drafts>>

\* other people at work on the item itself: a changed title, or the item
\* closed
RemoteEdit ==
    /\ steps.remote < MaxRemoteChanges
    /\ \/ remote' = [remote EXCEPT !.thing.title = @ \o <<"y">>]
       \/ /\ remote.state = "opened"
          /\ remote' = [remote EXCEPT !.state = "closed"]
    /\ steps' = [steps EXCEPT !.remote = @ + 1]
    /\ outcome' = NoOutcome("remote")
    /\ UNCHANGED <<GITHUB, DRY_RUN, what, thing, snapshot, files, log, edits, listed,
                   repository, drafts>>

Next == fetch \/ cmd_submit \/ UserEdit \/ RemoteChange

Spec == Init /\ [][Next]_vars

NextCodec == fetch \/ cmd_submit

SpecCodec == InitCodec /\ [][NextCodec]_vars

\* the item itself changes on the server and the list of open items is
\* fetched
NextItem == fetch \/ fetch_open \/ cmd_submit \/ UserEdit \/ RemoteEdit

SpecItem == Init /\ [][NextItem]_vars

\* a review is drafted on a merge request without a thread, in each of the
\* repositories, and submitted
InitDraft ==
    \E github \in BOOLEAN :
        /\ Start(World("merge_requests", github, PlainThing(TRUE), <<>>), FALSE)
        /\ repository \in DraftRepos(github)

NextDraft == cmd_discuss \/ cmd_submit

SpecDraft == InitDraft /\ [][NextDraft]_vars

\* ------------------------------------------------------------------------
\* cmd_retry (gl.py:1589-1612)
\* ------------------------------------------------------------------------
\* how many pipelines a merge request gets
MaxPipelines == 3

\* the revisions pipelines run on
Shas == {"s1", "s2"}

\* the status of a pipeline that has ended and of one that has not
Ended == {"success", "failed", "canceled"}

Running == {"pending", "running"}

\* gl.py:1594-1599 sorted(get(...), key=id)[-1]: the pipeline with the
\* greatest id
latest_pipeline(pipelines) ==
    pipelines[CHOOSE i \in 1..Len(pipelines) :
                \A j \in 1..Len(pipelines) : pipelines[j].id <= pipelines[i].id]

\* one turn of a loop that does not compare the revision with the blessed
\* one and retries whatever has not succeeded
retry_iteration_unblessed(pipelines, blessed_sha, get_ok, post_ok) ==
    IF DRY_RUN \/ ~get_ok \/ pipelines = <<>>
    THEN [error |-> "AssertionError", pc |-> "done", blessed_sha |-> blessed_sha,
          pipeline |-> Absent, post |-> Absent]
    ELSE IF latest_pipeline(pipelines).status = "success"
    THEN [error |-> "", pc |-> "done",
          blessed_sha |-> IF blessed_sha = Absent
                          THEN Some(latest_pipeline(pipelines).sha) ELSE blessed_sha,
          pipeline |-> Some(latest_pipeline(pipelines)), post |-> Absent]
    ELSE [error |-> IF post_ok THEN "" ELSE "AssertionError",
          pc |-> IF post_ok THEN "sleep" ELSE "done",
          blessed_sha |-> IF blessed_sha = Absent
                          THEN Some(latest_pipeline(pipelines).sha) ELSE blessed_sha,
          pipeline |-> Some(latest_pipeline(pipelines)),
          post |-> IF post_ok THEN Some(latest_pipeline(pipelines).id) ELSE Absent]

\* one turn of a loop that sleeps whatever it finds
retry_iteration_forever(pipelines, blessed_sha, get_ok, post_ok) ==
    IF DRY_RUN \/ ~get_ok \/ pipelines = <<>>
    THEN [error |-> "AssertionError", pc |-> "done", blessed_sha |-> blessed_sha,
          pipeline |-> Absent, post |-> Absent]
    ELSE [error |-> "", pc |-> "sleep",
          blessed_sha |-> IF blessed_sha = Absent
                          THEN Some(latest_pipeline(pipelines).sha) ELSE blessed_sha,
          pipeline |-> Some(latest_pipeline(pipelines)), post |-> Absent]

\* gl.py:1593-1611 one turn of the loop up to the sleep, for the pipelines
\* the server holds: the exception that ends it, or whether it returns
\* ("done") or sleeps, the blessed revision, the pipeline it looked at and
\* the pipeline it asked to retry.  get_ok, post_ok: the server answers the
\* request with success (gl.py:323 asserts it).  In dry-run mode get
\* returns None (gl.py:339-340) and sorted raises.
retry_iteration(pipelines, blessed_sha, get_ok, post_ok) ==
    LET ends(error) ==
            [error |-> error, pc |-> "done", blessed_sha |-> blessed_sha,
             pipeline |-> Absent, post |-> Absent]
        of(pipeline, blessed) ==
            IF pipeline.sha # blessed
            THEN [error |-> "", pc |-> "done", blessed_sha |-> Some(blessed),
                  pipeline |-> Some(pipeline), post |-> Absent]
            ELSE IF pipeline.status = "success"
            THEN [error |-> "", pc |-> "done", blessed_sha |-> Some(blessed),
                  pipeline |-> Some(pipeline), post |-> Absent]
            ELSE IF pipeline.status \in {"failed", "canceled"}
            THEN IF post_ok
                 THEN [error |-> "", pc |-> "sleep", blessed_sha |-> Some(blessed),
                       pipeline |-> Some(pipeline), post |-> Some(pipeline.id)]
                 ELSE [error |-> "AssertionError", pc |-> "done",
                       blessed_sha |-> Some(blessed),
                       pipeline |-> Some(pipeline), post |-> Absent]
            ELSE [error |-> "", pc |-> "sleep", blessed_sha |-> Some(blessed),
                  pipeline |-> Some(pipeline), post |-> Absent]
    IN  IF DRY_RUN THEN ends("TypeError")
        ELSE IF ~get_ok THEN ends("AssertionError")
        ELSE IF pipelines = <<>> THEN ends("IndexError")
        ELSE of(latest_pipeline(pipelines),
                IF blessed_sha = Absent THEN latest_pipeline(pipelines).sha
                ELSE blessed_sha[1])

\* POST pipelines/<id>/retry (gl.py:1610): the jobs of the pipeline that
\* failed or were canceled run again
retry_pipeline(pipelines, id) ==
    [i \in 1..Len(pipelines) |->
        IF pipelines[i].id = id THEN [pipelines[i] EXCEPT !.status = "pending"]
        ELSE pipelines[i]]

\* dry-run mode (gl.py:40, 1817-1819): the commands run on a merge request
\* in each of the repositories while the item changes on the server
InitDry ==
    \E github \in BOOLEAN :
        /\ Start(World("merge_requests", github, PlainThing(TRUE), <<>>), TRUE)
        /\ repository \in DraftRepos(github)

NextDry == fetch \/ cmd_submit \/ cmd_discuss \/ RemoteEdit

SpecDry == InitDry /\ [][NextDry]_vars

\* the pipelines a merge request has when cmd_retry starts: none, or one
\* or two, newest first as the server lists them
InitialPipelines ==
    {<<>>}
    \cup { << [id |-> 1, sha |-> "s1", status |-> st] >> : st \in Ended \cup Running }
    \cup { << [id |-> 2, sha |-> sha, status |-> st2], [id |-> 1, sha |-> "s1", status |-> st1] >> :
              sha \in Shas, st1 \in Ended, st2 \in Ended \cup Running }

\* a GitLab merge request with pipelines
InitRetry ==
    \E dry \in BOOLEAN :
    \E ps \in InitialPipelines :
        /\ GITHUB = FALSE
        /\ DRY_RUN = dry
        /\ what = "merge_requests"
        /\ remote = [thing |-> PlainThing(TRUE), state |-> "opened",
                     discussions |-> <<>>, next |-> 4, pipelines |-> ps]
        /\ thing = PlainThing(TRUE)
        /\ snapshot = Absent
        /\ files = NoFiles
        /\ log = <<>>
        /\ outcome = NoOutcome("init")
        /\ edits = <<>>
        /\ steps = [submits |-> 0, typed |-> 0, remote |-> 0, drafted |-> 0]
        /\ listed = TRUE
        /\ drafts = <<>>
        /\ repository = LocalRepo

\* gl.py:1589-1592 cmd_retry starts: the merge request of the branch is
\* looked up (gl.py:434), nothing is blessed yet
retry_start ==
    /\ outcome.pc \notin {"poll", "sleep"}
    /\ \E refreshed \in {~DRY_RUN /\ ~listed} :
       \E l \in {IF refreshed THEN remote.state = "opened" ELSE listed} :
           /\ listed' = l
           /\ thing' = IF refreshed /\ l THEN remote.thing ELSE thing
           /\ outcome' = [NoOutcome("retry") EXCEPT
                            !.error = IF l THEN "" ELSE "StopIteration",
                            !.pc = IF l THEN "poll" ELSE "done"]
    /\ log' = <<>>
    /\ UNCHANGED <<GITHUB, DRY_RUN, what, remote, snapshot, files, edits, steps,
                   repository, drafts>>

\* gl.py:1593-1611 one turn of the loop of cmd_retry; log holds the request
\* of the turn
retry_poll ==
    /\ outcome.cmd = "retry" /\ outcome.pc = "poll"
    /\ \E get_ok \in BOOLEAN :
       \E post_ok \in BOOLEAN :
       \E r \in {retry_iteration(remote.pipelines, outcome.blessed_sha, get_ok, post_ok)} :
           /\ outcome' = [outcome EXCEPT !.error = r.error, !.pc = r.pc,
                                         !.blessed_sha = r.blessed_sha,
                                         !.pipeline = r.pipeline]
           /\ log' = IF r.post = Absent THEN <<>>
                     ELSE <<Req("retry", r.post, Absent, Absent, Absent)>>
           /\ remote' = IF r.post = Absent THEN remote
                        ELSE [remote EXCEPT !.pipelines = retry_pipeline(@, r.post[1])]
    /\ UNCHANGED <<GITHUB, DRY_RUN, what, thing, snapshot, files, edits, steps, listed,
                   repository, drafts>>

\* gl.py:1612 time.sleep(180) returns
retry_wake ==
    /\ outcome.cmd = "retry" /\ outcome.pc = "sleep"
    /\ outcome' = [outcome EXCEPT !.pc = "poll"]
    /\ UNCHANGED <<GITHUB, DRY_RUN, what, remote, thing, snapshot, files, log, edits, steps,
                   listed, repository, drafts>>

\* the server runs a pipeline: one that waits starts or is canceled, one
\* that runs ends
PipelineRuns ==
    /\ \E i \in 1..Len(remote.pipelines) :
       \E st \in Ended \cup Running :
           /\ \/ remote.pipelines[i].status = "pending" /\ st \in {"running", "canceled"}
              \/ remote.pipelines[i].status = "running" /\ st \in Ended
           /\ remote' = [remote EXCEPT !.pipelines[i].status = st]
    /\ UNCHANGED <<GITHUB, DRY_RUN, what, thing, snapshot, files, log, outcome, edits, steps,
                   listed, repository, drafts>>

\* someone pushes to the branch, or starts a pipeline by hand: a new
\* pipeline, on a revision of its own
Push ==
    /\ Len(remote.pipelines) < MaxPipelines
    /\ \E sha \in Shas :
           remote' = [remote EXCEPT !.pipelines =
                        << [id |-> Len(@) + 1, sha |-> sha, status |-> "pending"] >> \o @]
    /\ UNCHANGED <<GITHUB, DRY_RUN, what, thing, snapshot, files, log, outcome, edits, steps,
                   listed, repository, drafts>>

NextRetry == retry_start \/ retry_poll \/ retry_wake \/ PipelineRuns \/ Push

SpecRetry == InitRetry /\ [][NextRetry]_vars

\* time.sleep returns, and a command that can go on does
SpecRetryFair == SpecRetry /\ WF_vars(retry_wake) /\ WF_vars(retry_poll)

\* a merge request with an anchored thread, alone or before a thread
\* without an anchor, is fetched in each of the repositories
InitRender ==
    \E github \in BOOLEAN :
    \E pos \in RenderAnchors :
    \E rest \in { <<>>, << [id |-> Key("b"),
                            notes |-> <<note(2, Bob, Hi, Some(FALSE), FALSE)>>] >> } :
        /\ Start(World("merge_requests", github, PlainThing(TRUE),
                       << [id |-> Key("a"),
                           notes |-> << [note(1, Bob, Hi, Some(FALSE), TRUE)
                                            EXCEPT !.position = Some(pos)] >>] >>
                       \o rest),
                 FALSE)
        /\ repository \in RenderRepos

NextRender == fetch \/ cmd_submit

SpecRender == InitRender /\ [][NextRender]_vars

\* the threads of an item are fetched, a block of rows is typed into one of
\* its files, and the item is submitted, in each dialect
InitEdit == \E w \in EditWorlds : Start(w, FALSE) /\ repository = LocalRepo

NextEdit == fetch \/ cmd_submit \/ UserTypes

SpecEdit == InitEdit /\ [][NextEdit]_vars

\* ------------------------------------------------------------------------
\* What the claims speak of
\* ------------------------------------------------------------------------
\* the text R the last fetch rendered for the working file (gl.py:657-659,
\* gl.py:705-707)
R_text ==
    IF is_mr
    THEN show_discussion(threads_where(load_discussions(snapshot), LAMBDA n :
            IF GITHUB THEN n.commit_id # Absent ELSE n.resolved = Some(FALSE)))
         \o MARKER \o <<NL>>
    ELSE rendered(thing, load_discussions(snapshot))

\* a fetch of the item ran to its end outside dry-run mode: the command
\* fetch, or the fetch cmd_submit makes
Fetched == outcome.refetched /\ ~DRY_RUN

\* that fetch found a working file and merged: its lines W and P before the
\* fetch, the lines R it rendered, the lines M of the working file after it
Merged == Fetched /\ outcome.W # Absent

W_lines == FileLines(outcome.W[1])

P_lines == FileLines(outcome.P[1])

R_lines == FileLines(R_text)

M_lines == FileLines(files[working_path][1])

IsBlock(lines, block) ==
    \E i \in 0..(Len(lines) - Len(block)) : SubSeq(lines, i + 1, i + Len(block)) = block

ConflictMarkers == {ConflictStart, ConflictMiddle, ConflictEnd}

NoConflict(lines) == \A i \in 1..Len(lines) : lines[i] \notin ConflictMarkers

\* a conflict block with the line ours in its first part and the line theirs
\* in its second
ConflictBlock(lines, ours, theirs) ==
    \E i, j, k \in 1..Len(lines) :
        /\ i < j /\ j < k
        /\ lines[i] = ConflictStart /\ lines[j] = ConflictMiddle /\ lines[k] = ConflictEnd
        /\ IsLine(SubSeq(lines, i + 1, j - 1), ours)
        /\ IsLine(SubSeq(lines, j + 1, k - 1), theirs)

\* the indices at which two texts of the same number of lines differ
changed_lines(a, b) == {i \in 1..Len(a) : a[i] # b[i]}

\* the first row of the note that row p of lines belongs to: the nearest row
\* at or above p that starts "<TAB>[", all rows between being note rows
note_of(lines, p) ==
    LET heads == {q \in 1..p : /\ startswith(lines[q], <<TAB, "[">>)
                               /\ \A i \in q..p : startswith(lines[i], <<TAB>>)}
    IN  IF heads = {} THEN 0 ELSE CHOOSE q \in heads : \A r \in heads : q >= r

\* the pairs <<pw, pr>> of rows for which W changes just row pw of P and R
\* just row pr, both rows of the body of the same note, and not to the same
\* text
BothChangeNote(P, W, R) ==
    LET pairs(cw, cr) ==
            IF Cardinality(cw) # 1 \/ Cardinality(cr) # 1 THEN {}
            ELSE {pq \in cw \X cr : /\ note_of(P, pq[1]) > 0
                                    /\ note_of(P, pq[1]) = note_of(P, pq[2])
                                    /\ W[pq[1]] # R[pq[2]]}
    IN  IF Len(W) # Len(P) \/ Len(R) # Len(P) THEN {}
        ELSE pairs(changed_lines(P, W), changed_lines(P, R))

\* every such pair is in a conflict block of M
Surfaced(P, W, R, M) ==
    \A pq \in BothChangeNote(P, W, R) : ConflictBlock(M, W[pq[1]], R[pq[2]])

\* every such pair is in a conflict block of M when its rows are the same or
\* next to each other, and merged into M without a conflict marker otherwise
SurfacedWhenClose(P, W, R, M) ==
    \A pq \in BothChangeNote(P, W, R) :
        IF pq[1] - pq[2] \in {-1, 0, 1}
        THEN ConflictBlock(M, W[pq[1]], R[pq[2]])
        ELSE /\ NoConflict(M)
             /\ Len(M) = Len(P)
             /\ M[pq[1]] = W[pq[1]]
             /\ M[pq[2]] = R[pq[2]]

\* W is P with the one line reply added at the end of a thread: right after
\* its last note, or after the blank line that ends it
AppendedReply(reply) ==
    \E p \in 1..Len(P_lines) :
        /\ W_lines = SubSeq(P_lines, 1, p) \o <<reply>> \o SubSeq(P_lines, p + 1, Len(P_lines))
        /\ \/ startswith(P_lines[p], <<TAB>>) /\ p < Len(P_lines) /\ P_lines[p + 1] = <<>>
           \/ P_lines[p] = <<>> /\ p > 1 /\ startswith(P_lines[p - 1], <<TAB>>)

\* R is P with the thread d added
AddedThread(d) ==
    \E p \in 0..Len(P_lines) :
        R_lines = SubSeq(P_lines, 1, p) \o FileLines(show_thread(d))
                  \o SubSeq(P_lines, p + 1, Len(P_lines))

\* the command tokens a user types
Tokens == {T_r, T_u, T_close, T_delete, T_merge}

\* the first row after the header that starts with the MARKER: the sentinel
\* that ends the threads (gl.py:916); start is the number of header rows
Sentinel(rows, start) ==
    LET at == {k \in (start + 1)..Len(rows) : startswith(rows[k], MARKER)}
    IN  IF at = {} THEN Len(rows) + 1 ELSE CHOOSE k \in at : \A j \in at : k <= j

\* the rows between the header and the sentinel
ThreadRows(rows, start) == (start + 1)..(Sentinel(rows, start) - 1)

\* a thread is active at row k: a thread header row lies above it
ActiveAt(rows, start, k) == \E j \in (start + 1)..(k - 1) : location_match(rows[j])

\* the rows inside a thread
InThread(rows, start) == {k \in ThreadRows(rows, start) : ActiveAt(rows, start, k)}

\* a row of text that starts a reply: not blank, not indented, not a diff
\* context row, not a thread header, not a token
reply_line(row) ==
    /\ row # <<>>
    /\ ~startswith(row, <<TAB>>)
    /\ ~context_match(row)
    /\ ~location_match(row)
    /\ row \notin Tokens

\* the token rows and reply rows where no thread is active
Misplaced(rows, start) ==
    {k \in ThreadRows(rows, start) :
        /\ ~ActiveAt(rows, start, k)
        /\ rows[k] \in Tokens \/ reply_line(rows[k])}

\* the thread header rows that name a thread the snapshot does not hold
UnknownThread(rows, start, discussions) ==
    {k \in ThreadRows(rows, start) :
        /\ location_match(rows[k])
        /\ Find(discussions, location_id(rows[k])) = Absent}

\* the note header rows that name a note the snapshot does not hold
UnknownNote(rows, start, discussions) ==
    {k \in ThreadRows(rows, start) :
        /\ tag_match(rows[k])
        /\ \A i \in 1..Len(discussions) :
           \A j \in 1..Len(discussion_notes(discussions[i])) :
                discussion_notes(discussions[i])[j].id # tag_id(rows[k])}

\* the tokens that are commands: all of them in a merge request, two of them
\* in an issue (gl.py:939)
CommandTokens(mr) == IF mr THEN Tokens ELSE {T_close, T_delete}

\* the rows that are one of the tokens
TokenRows(rows, tokens) == {k \in 1..Len(rows) : rows[k] \in tokens}

\* the bodies of the notes a submit created or changed
bodies(l) ==
    {l[i].body[1] : i \in {i \in 1..Len(l) :
        l[i].op \in {"create_discussion", "create_reply", "update_note"}}}

\* no line of a body is one of the tokens
NoTokenLine(bs, tokens) == \A b \in bs : ~\E i \in 1..Len(splitlines(b)) : splitlines(b)[i] \in tokens

\* the mutation requests that update the header fields of the item
metadata_calls(l) == {i \in 1..Len(l) : l[i].op = "put"}

\* ------------------------------------------------------------------------
\* The claims
\* ------------------------------------------------------------------------
\* C1 (round trip): a submit that reads the files exactly as a fetch of the
\* snapshot rendered them issues no mutation request.
C1_RoundTrip == outcome.cmd = "submit" /\ outcome.unedited => log = <<>>

\* C2 (idempotence): a submit that follows a submit and a re-fetch, with no
\* edit by the user in between, issues no mutation request.
C2_Idempotence == outcome.phase = 3 => log = <<>>

\* C3 (first flag): the first flag of submit_discussion is set exactly when
\* the call issued a mutation request, and cmd_submit fetches the item again
\* exactly then.
C3_FirstFlag ==
    outcome.cmd = "submit" /\ outcome.error = "" =>
        /\ outcome.changed <=> log # <<>>
        /\ outcome.refetched <=> log # <<>>

\* C4 (no silent loss): a submit that ends without an error and puts the
\* pristine text over a working file holding a line of text the user typed
\* or changed below the header has issued a mutation request.
C4_NoSilentLoss ==
    (/\ outcome.cmd = "submit" /\ ~DRY_RUN /\ outcome.error = ""
     /\ outcome.data = EmptyDict
     /\ \E i \in 1..Len(outcome.edits) :
            /\ outcome.edits[i].file = working_path
            /\ outcome.edits[i].line \notin Tokens)
    => log # <<>>

\* C5 (fetch keeps edits): after a fetch every line the user typed or changed
\* and has not submitted is still a line of the file it was typed into.
C5_FetchKeepsEdits ==
    outcome.cmd = "fetch" /\ ~DRY_RUN =>
        \A i \in 1..Len(edits) :
            IsLine(FileLines(files[edits[i].file][1]), edits[i].line)

\* C6 (what a fetch writes): after a fetch outside dry-run mode the pristine
\* file is the render R; the working file is R when there was none before,
\* and otherwise the three-way merge of ours = the working text before, base
\* = the pristine text before, theirs = R.
C6_FetchWrites ==
    Fetched =>
        /\ files[pristine_path] = Some(R_text)
        /\ files[working_path] =
              IF outcome.W = Absent THEN Some(R_text)
              ELSE Some(merge_file(outcome.W[1], outcome.P[1], R_text))

\* C6 happens: a fetch merged a working file the user had edited with a
\* render the server had changed.
C6_Witness ==
    /\ Merged /\ outcome.cmd = "fetch"
    /\ W_lines # P_lines /\ R_lines # P_lines
    /\ M_lines # W_lines /\ M_lines # R_lines

\* C7 (merge safety): when W is P plus a reply at the end of a thread and R
\* is P plus a new thread, the merged working file holds the reply and the
\* new thread and no conflict marker.
C7_MergeSafety ==
    \A k \in 1..Len(load_discussions(snapshot)) :
        Merged /\ AppendedReply(Reply) /\ AddedThread(load_discussions(snapshot)[k]) =>
            /\ NoConflict(M_lines)
            /\ IsLine(M_lines, Reply)
            /\ IsBlock(M_lines, FileLines(show_thread(load_discussions(snapshot)[k])))

\* C8 as stated (conflict surfacing): when W and R change the body of the
\* same note differently, the merged working file holds a conflict block with
\* both versions, and the pristine file is the render.
C8_AsStated ==
    Merged => /\ files[pristine_path] = Some(R_text)
              /\ Surfaced(P_lines, W_lines, R_lines, M_lines)

\* C8 amended: when W and R change the body of the same note differently, in
\* the same row or in rows next to each other, the merged working file holds
\* a conflict block with both versions; when an unchanged row lies between
\* the two changed rows, the merged working file holds both changes and no
\* conflict marker.  The pristine file is the render in either case.
C8_ConflictSurfacing ==
    Merged => /\ files[pristine_path] = Some(R_text)
              /\ SurfacedWhenClose(P_lines, W_lines, R_lines, M_lines)

\* C8 happens: W and R changed the same row of a note and the fetch merged
\* them into a conflict block.
C8_Witness ==
    /\ Merged
    /\ \E pq \in BothChangeNote(P_lines, W_lines, R_lines) : pq[1] = pq[2]
    /\ ~NoConflict(M_lines)

\* C9 (metadata no-op): the parse of a header exactly as rendered from the
\* item ends without the exception of gl.py:857 and finds no changed field.
C9_MetadataNoOp ==
    outcome.cmd = "submit" /\ outcome.unedited =>
        outcome.error # "AttributeError" /\ outcome.data = EmptyDict

\* C10 (one metadata update): a submit that reads the files of the item and
\* finds header fields changed issues one request that updates them and sets
\* its second flag; a submit that finds none issues no such request and
\* leaves the flag unset.
C10_OneMetadataUpdate ==
    outcome.cmd = "submit" /\ ~DRY_RUN /\ outcome.error = "" /\ ~outcome.first =>
        IF outcome.data # EmptyDict
        THEN Cardinality(metadata_calls(log)) = 1 /\ outcome.desc_changed
        ELSE metadata_calls(log) = {} /\ ~outcome.desc_changed

\* C11 (optimistic concurrency): a submit that finds header fields changed
\* sends the update of every changed field whose known value is still the
\* server's, and of no changed field whose known value is not.
C11_OptimisticConcurrency ==
    (/\ outcome.cmd = "submit" /\ ~DRY_RUN /\ outcome.error = ""
     /\ outcome.known # Absent /\ ~outcome.first)
    => \A key \in DOMAIN outcome.data :
           IF key \in Unchecked \/ outcome.known[1][key] = outcome.current[1][key]
           THEN \E i \in metadata_calls(log) : key \in DOMAIN log[i].body[1]
           ELSE \A i \in metadata_calls(log) : key \notin DOMAIN log[i].body[1]

\* C12 (structural errors are fatal): a submit that reads a thread header or
\* a note header naming what the snapshot does not hold, or a token or reply
\* row where no thread is active, ends with an error, leaves the working file
\* as it was and does not fetch the item again.
C12_StructuralErrorsFatal ==
    (/\ outcome.cmd = "submit" /\ ~DRY_RUN /\ outcome.known # Absent
     /\ Misplaced(outcome.rows, outcome.start)
          \cup UnknownThread(outcome.rows, outcome.start, load_discussions(outcome.snap))
          \cup UnknownNote(outcome.rows, outcome.start, load_discussions(outcome.snap)) # {})
    => /\ outcome.error # ""
       /\ files[working_path] = outcome.before
       /\ ~outcome.refetched

\* C13 (retired-item cleanup): after a fetch that obtained a list of open
\* items without the item, the item's directory is gone.
C13_RetiredCleanup ==
    outcome.cmd = "fetch" /\ outcome.retired => files = NoFiles /\ snapshot = Absent

\* the rows of a hunk that are line number line of the old file (side
\* "old") or of the new file (side "new")
RowsAt(hunk, side, line) ==
    {i \in 1..Len(hunk) :
        IF side = "old" THEN hunk[i].source_line_no = Some(line)
        ELSE hunk[i].target_line_no = Some(line)}

\* the text has at most DIFF_CONTEXT_LINES lines and its last line is the
\* row of the hunk that is the line of that side
EndsAt(text, hunk, side, line) ==
    LET ls == FileLines(text)
    IN  /\ Len(ls) \in 1..DIFF_CONTEXT_LINES
        /\ \E i \in RowsAt(hunk, side, line) :
                ls[Len(ls)] \o <<NL>> = <<hunk[i].line_type>> \o hunk[i].value

\* the hunk of the reviewed commit for the file, when there is one
HasHunk ==
    /\ repository.commits = "local" /\ repository.diffable = ""
    /\ repository.commit # Absent /\ repository.commit[1] # <<>>

\* the anchored first notes of the threads of the snapshot
Anchors ==
    {discussion_notes(load_discussions(snapshot)[k])[1].position[1] :
        k \in {j \in 1..Len(load_discussions(snapshot)) :
                discussion_notes(load_discussions(snapshot)[j])[1].position # Absent}}

\* C14 (context bound): the context written for a review draft, and the
\* context rendered for every anchored thread, has at most DIFF_CONTEXT_LINES
\* lines and ends with the requested line of the requested side (the old
\* side for a removed line of a draft and for an anchor without a new line,
\* else the new side), whenever the file has that line on that side.
C14_ContextBound ==
    /\ (outcome.cmd = "discuss" /\ outcome.draft # Absent /\ HasHunk) =>
            LET d == outcome.draft[1]
                side == IF d.line_type = "-" THEN "old" ELSE "new"
                line == IF d.line_type = "-" THEN d.old_line ELSE d.new_line
            IN  RowsAt(repository.commit[1][1], side, line) # {}
                => EndsAt(d.context, repository.commit[1][1], side, line)
    /\ (outcome.cmd = "submit" /\ outcome.refetched /\ HasHunk) =>
            \A pos \in Anchors :
                LET side == IF pos.new_line # Absent THEN "new" ELSE "old"
                    line == IF pos.new_line # Absent THEN pos.new_line[1]
                            ELSE pos.old_line[1]
                IN  RowsAt(repository.commit[1][1], side, line) # {}
                    => EndsAt(diff_context(pos.old_line, pos.new_line),
                              repository.commit[1][1], side, line)

\* C15 (the diff context extractor never raises): a fetch of an item with
\* anchored threads ends without an exception and writes the files of the
\* item, whatever the repository and the anchors are.
C15_NeverRaises ==
    (outcome.cmd = "fetch" /\ Anchors # {})
    => /\ outcome.error = ""
       /\ \A f \in {"todo.gl", "pristine-todo.gl", "resolved.gl", "meta.gl"} :
            files[f] # Absent

\* the requests of submit_review among the requests of a submit
review_log == SelectSeq(log, LAMBDA q : q.op = "create_diff_discussion")

\* C16 (structured anchor): a submit of the GitLab dialect sends one
\* create-discussion request per draft, in order, with base = start = the
\* revision of the commit's first parent, head = the commit, old_line null
\* exactly for a "+" draft and else the draft's old line, new_line null
\* exactly for a "-" draft and else the draft's new line.
C16_StructuredAnchor ==
    (outcome.cmd = "submit" /\ ~GITHUB /\ outcome.drafts # <<>> /\ outcome.error = "")
    => /\ Len(review_log) = Len(outcome.drafts)
       /\ \A i \in 1..Len(outcome.drafts) :
            LET d == outcome.drafts[i]
                data == review_log[i].body[1]
            IN  /\ data.base_sha = THE_PARENT /\ data.start_sha = THE_PARENT
                /\ data.head_sha = THE_COMMIT
                /\ data.old_path = d.file /\ data.new_path = d.file
                /\ data.old_line = (IF d.line_type = "+" THEN Absent ELSE Some(d.old_line))
                /\ data.new_line = (IF d.line_type = "-" THEN Absent ELSE Some(d.new_line))

\* C16 happens: a submit sent the request of a draft on an added line.
C16_Witness ==
    /\ outcome.cmd = "submit" /\ ~GITHUB /\ outcome.error = ""
    /\ outcome.drafts # <<>> /\ outcome.drafts[1].line_type = "+"
    /\ review_log # <<>>
    /\ files["review.gl"] = Absent

\* the rows of the hunks of a diff in order, each with the number of its hunk
flat(hunks) ==
    Concat([h \in 1..Len(hunks) |->
                [i \in 1..Len(hunks[h]) |-> [hunk |-> h, line |-> hunks[h][i]]]])

\* the first row of the diff that is the target of a draft: the row of the
\* old line for a removed line, of the new line otherwise; 0 without one
TargetRow(rows, d) ==
    LET hit == {i \in 1..Len(rows) :
                    IF d.line_type = "-" THEN rows[i].line.source_line_no = Some(d.old_line)
                    ELSE rows[i].line.target_line_no = Some(d.new_line)}
    IN  IF hit = {} THEN 0 ELSE CHOOSE i \in hit : \A j \in hit : i <= j

\* a draft of the GitHub dialect was written, and the diff of the review
\* range has the row of its target
Counted ==
    /\ outcome.cmd = "discuss" /\ GITHUB /\ outcome.draft # Absent
    /\ TargetRow(flat(repository.range[1]), outcome.draft[1]) > 0

\* C17 as stated (raw count): the raw count of a draft is the number of
\* context, added and removed rows of the diff of the review range up to and
\* including the row of the target.
C17_AsStated ==
    Counted =>
        LET rows == flat(repository.range[1])
            m == TargetRow(rows, outcome.draft[1])
        IN  outcome.draft[1].github_line
            = Cardinality({i \in 1..m : rows[i].line.line_type \in {" ", "+", "-"}})

\* C17 amended: the raw count of a draft is the number of rows of the diff
\* of the review range up to and including the row of the target (every row
\* of a hunk, the row "\ No newline at end of file" too) plus the number of
\* hunks that end before that row.
C17_RawCount ==
    Counted =>
        LET rows == flat(repository.range[1])
            m == TargetRow(rows, outcome.draft[1])
        IN  outcome.draft[1].github_line = m + (rows[m].hunk - 1)

\* C17 happens: the row of the target of a draft is in a later hunk than
\* the first.
C17_Witness ==
    /\ Counted
    /\ flat(repository.range[1])[TargetRow(flat(repository.range[1]),
                                          outcome.draft[1])].hunk > 1

\* +1 per added and -1 per removed row among the rows
Net(rows) ==
    Cardinality({i \in 1..Len(rows) : is_added(rows[i].line)})
    - Cardinality({i \in 1..Len(rows) : is_removed(rows[i].line)})

\* the rows of a diff that come before the first row whose line number in
\* the new file is at least n
RowsBefore(rows, n) ==
    LET hit == {i \in 1..Len(rows) :
                    /\ rows[i].line.target_line_no # Absent
                    /\ rows[i].line.target_line_no[1] >= n}
    IN  IF hit = {} THEN rows
        ELSE SubSeq(rows, 1, (CHOOSE i \in hit : \A j \in hit : i <= j) - 1)

\* C18 (final position): the position written for a draft is the raw count
\* plus the net number of added rows of the diff from the reviewed commit to
\* the head that come before the first row at which the line number reaches
\* the raw count.
C18_FinalPosition ==
    (outcome.cmd = "discuss" /\ GITHUB /\ outcome.draft # Absent) =>
        LET d == outcome.draft[1]
            rows == IF repository.tail = Absent THEN <<>> ELSE flat(repository.tail[1])
        IN  d.position = d.github_line + Net(RowsBefore(rows, d.github_line))

\* C19 (position translation failure): a draft of the GitHub dialect whose
\* commit is missing, whose file the diff of the review range does not name,
\* or whose target line that diff does not have, ends with an exception and
\* leaves review.gl as it was.
C19_TranslationFailure ==
    (/\ outcome.cmd = "discuss" /\ GITHUB
     /\ \/ repository.commits # "local"
        \/ repository.range = Absent
        \/ outcome.draft # Absent
           /\ TargetRow(flat(repository.range[1]), outcome.draft[1]) = 0)
    => outcome.error # "" /\ files["review.gl"] = outcome.before

RenderedOrder(discussions) ==
    IF ~is_mr THEN discussions
    ELSE threads_where(discussions, LAMBDA n :
            IF GITHUB THEN n.commit_id = Absent ELSE n.resolved = Absent)
         \o threads_where(discussions, LAMBDA n : ~GITHUB /\ n.resolved = Some(TRUE))
         \o threads_where(discussions, LAMBDA n :
            IF GITHUB THEN n.commit_id # Absent ELSE n.resolved = Some(FALSE))

\* those of them that are shown with a thread header row (gl.py:499-503)
Headed(discussions) ==
    SelectSeq(RenderedOrder(discussions),
              LAMBDA d : ~GITHUB \/ discussion_notes(d)[1].position # Absent)

\* the thread header rows above row k, the sentinel or the end
HeadersAbove(rows, start, k) ==
    {j \in (start + 1)..(Min(k, Sentinel(rows, start)) - 1) : location_match(rows[j])}

\* the thread whose header row most recently precedes row k, as its place in
\* Headed: on GitLab the thread the header row names; on GitHub, where every
\* header row shows the same id, the rendered header rows are counted; 0
\* when there is no header row above k or when it names no thread
ThreadOf(rows, start, k, discussions) ==
    LET above == HeadersAbove(rows, start, k)
        named(id) == {t \in 1..Len(Headed(discussions)) : Headed(discussions)[t].id = id}
    IN  IF above = {} THEN 0
        ELSE IF GITHUB
        THEN IF rows[CHOOSE j \in above : \A i \in above : i <= j] = UnknownThreadRow
             THEN 0
             ELSE Cardinality({j \in above : rows[j] # UnknownThreadRow})
        ELSE IF named(location_id(rows[CHOOSE j \in above : \A i \in above : i <= j])) = {}
        THEN 0
        ELSE CHOOSE t \in named(location_id(rows[CHOOSE j \in above : \A i \in above : i <= j])) : TRUE

\* a is the start of b
Prefix(a, b) == Len(a) <= Len(b) /\ SubSeq(b, 1, Len(a)) = a

\* the numbers 1..n in order
Upto(n) == [k \in 1..n |-> k]

\* the resolve and unresolve requests the token rows inside threads call
\* for, in the order of the rows: "r" in a thread whose first note the
\* snapshot holds as unresolved, "u" in one it holds as resolved
WantedResolves(rows, start, discussions) ==
    LET hit(k) == /\ k \in ThreadRows(rows, start)
                  /\ rows[k] \in {T_r, T_u}
                  /\ ThreadOf(rows, start, k, discussions) \in 1..Len(Headed(discussions))
                  /\ discussion_notes(Headed(discussions)[ThreadOf(rows, start, k, discussions)])[1].resolved
                        = Some(rows[k] = T_u)
        at == SelectSeq(Upto(Len(rows)), hit)
    IN  [i \in 1..Len(at) |->
            [op |-> IF rows[at[i]] = T_r THEN "resolve" ELSE "unresolve",
             discussion |-> Headed(discussions)[ThreadOf(rows, start, at[i], discussions)].id]]

\* the resolve and unresolve requests of a submit
SentResolves(l) ==
    LET qs == SelectSeq(l, LAMBDA q : q.op \in {"resolve", "unresolve"})
    IN  [i \in 1..Len(qs) |-> [op |-> qs[i].op, discussion |-> qs[i].discussion]]

\* a submit read the files of an item that was fetched
Submitted == outcome.cmd = "submit" /\ outcome.known # Absent /\ outcome.snap # Absent

\* C21 (SetResolved is conditional on the snapshot): the resolve and
\* unresolve requests of a submit are those of the token rows inside
\* threads, in order: a resolve for each "r" in a thread whose first note
\* the snapshot holds as unresolved, an unresolve for each "u" in a thread
\* whose first note it holds as resolved, each naming the thread whose
\* header row most recently precedes the token; a submit that an exception
\* ends has sent those of the rows it has read.
C21_SetResolved ==
    Submitted =>
        LET want == WantedResolves(outcome.rows, outcome.start, load_discussions(outcome.snap))
        IN  IF outcome.error = "" THEN SentResolves(log) = want
            ELSE Prefix(SentResolves(log), want)

\* C21 happens: a submit read a resolve token in a resolved thread and an
\* unresolved one, or an unresolve token, and sent a request.
C21_Witness ==
    /\ Submitted /\ outcome.error = ""
    /\ \E k \in InThread(outcome.rows, outcome.start) : outcome.rows[k] \in {T_r, T_u}
    /\ SentResolves(log) # <<>>

\* a row that is the first row of a note as show_discussion writes it: a tab,
\* a tag in brackets, a space
AnyTag(row) ==
    /\ Len(row) >= 5 /\ row[1] = TAB /\ row[2] = "["
    /\ \E i \in 4..(Len(row) - 1) : row[i] = "]" /\ row[i + 1] = " "

\* the last thread header row above row k, or the last row of the header
HeaderAbove(rows, start, k) ==
    LET above == HeadersAbove(rows, start, k)
    IN  IF above = {} THEN start ELSE CHOOSE j \in above : \A i \in above : i <= j

\* a row with text that is not indented and is neither a thread header nor
\* a command
Dedented(row) ==
    /\ row # <<>> /\ ~startswith(row, <<TAB>>)
    /\ ~location_match(row) /\ row \notin CommandTokens(is_mr)

\* row j starts a reply: it is dedented and follows note rows of its thread
StartsReply(rows, start, j) ==
    /\ j \in ThreadRows(rows, start)
    /\ Dedented(rows[j])
    /\ \E i \in (HeaderAbove(rows, start, j) + 1)..(j - 1) : startswith(rows[i], <<TAB>>)

\* row k lies below the first row of a reply to its thread
InReply(rows, start, k) ==
    \E j \in (HeaderAbove(rows, start, k) + 1)..(k - 1) : StartsReply(rows, start, j)

\* the rows that show a note under its numeric id
NoteTagRows(rows, start) ==
    {k \in ThreadRows(rows, start) : tag_match(rows[k]) /\ ~InReply(rows, start, k)}

\* the last row of the note that row k starts: the one before the next note,
\* thread header, dedented row or sentinel
NoteEnd(rows, start, k) ==
    LET stop == {j \in (k + 1)..Sentinel(rows, start) :
                    \/ j = Sentinel(rows, start)
                    \/ j = Len(rows) + 1
                    \/ location_match(rows[j]) \/ AnyTag(rows[j]) \/ Dedented(rows[j])}
    IN  IF stop = {} THEN Len(rows)
        ELSE (CHOOSE j \in stop : \A i \in stop : j <= i) - 1

\* a row of a note without its indent of one or two tabs
Unindented(row) ==
    IF startswith(row, <<TAB, TAB>>) THEN From(row, 2)
    ELSE IF startswith(row, <<TAB>>) THEN From(row, 1)
    ELSE row

\* the body of the note that row k starts, as the user left it: its rows
\* without tag and indent, command rows left out, trimmed
TypedBody(rows, start, k) ==
    LET at == SelectSeq(Upto(NoteEnd(rows, start, k)),
                        LAMBDA j : j >= k /\ rows[j] \notin CommandTokens(is_mr))
    IN  strip(join(<<NL>>,
            [i \in 1..Len(at) |->
                IF at[i] = k THEN Unindented(<<TAB>> \o tag_rest(rows[k]))
                ELSE Unindented(rows[at[i]])]))

\* the notes of a snapshot
AllNotes(discussions) ==
    UNION { {discussion_notes(discussions[i])[j] :
                j \in 1..Len(discussion_notes(discussions[i]))} :
            i \in 1..Len(discussions) }

\* the update-note requests the note rows call for: one for each note whose
\* trimmed body differs from the trimmed and normalised body of the snapshot
WantedUpdates(rows, start, discussions) ==
    { [note |-> tag_id(rows[k]), body |-> TypedBody(rows, start, k)] :
        k \in {i \in NoteTagRows(rows, start) :
                \E n \in AllNotes(discussions) :
                    /\ n.id = tag_id(rows[i])
                    /\ TypedBody(rows, start, i) # dos2unix(strip(n.body))} }

\* the update-note requests of a submit
SentUpdates(l) ==
    LET qs == SelectSeq(l, LAMBDA q : q.op = "update_note")
    IN  [i \in 1..Len(qs) |-> [note |-> qs[i].note[1], body |-> qs[i].body[1]]]

\* C22 (EditNote): a submit sends one update-note request for each note
\* shown under its numeric id whose body, trimmed, differs from the body of
\* the snapshot, trimmed and with CRLF made LF; the request carries the
\* trimmed body; no other update-note request is sent (a submit that an
\* exception ends has sent some of them and no other).
C22_EditNote ==
    Submitted =>
        LET want == WantedUpdates(outcome.rows, outcome.start, load_discussions(outcome.snap))
            got == SentUpdates(log)
        IN  /\ {got[i] : i \in 1..Len(got)} \subseteq want
            /\ Len(got) = Cardinality({got[i] : i \in 1..Len(got)})
            /\ outcome.error = "" => Len(got) = Cardinality(want)

\* the rows above row k that start a note
TagsAbove(rows, start, k) ==
    {i \in (start + 1)..(k - 1) : AnyTag(rows[i])}

\* the thread that a reply started at row k follows, as its place in
\* RenderedOrder: on GitLab the thread of the header row above; on GitHub,
\* where every comment is a thread of one note, the comment of the note row
\* above (the rendered note rows are counted); 0 when there is none
ReplyThread(rows, start, k, discussions) ==
    IF ~GITHUB THEN ThreadOf(rows, start, k, discussions)
    ELSE IF TagsAbove(rows, start, k) = {} THEN 0
    ELSE IF rows[CHOOSE j \in TagsAbove(rows, start, k) :
                    \A i \in TagsAbove(rows, start, k) : i <= j] = UnknownNoteRow
    THEN 0
    ELSE Cardinality({j \in TagsAbove(rows, start, k) : rows[j] # UnknownNoteRow})

\* the threads that got a reply: those of the rows that start one
RepliedThreads(rows, start, discussions) ==
    {ReplyThread(rows, start, j, discussions) :
        j \in {i \in ThreadRows(rows, start) :
                    StartsReply(rows, start, i) /\ ~InReply(rows, start, i)}}

\* the create-reply requests the replies call for: one for each thread,
\* naming the thread and its first note
WantedReplies(rows, start, discussions) ==
    { [discussion |-> RenderedOrder(discussions)[t].id,
       note |-> discussion_notes(RenderedOrder(discussions)[t])[1].id] :
        t \in RepliedThreads(rows, start, discussions) \cap (1..Len(RenderedOrder(discussions))) }

\* the create-reply requests of a submit
SentReplies(l) ==
    LET qs == SelectSeq(l, LAMBDA q : q.op = "create_reply")
    IN  [i \in 1..Len(qs) |-> [discussion |-> qs[i].discussion, note |-> qs[i].note[1]]]

\* C23 (NewNote): a dedented row that follows the notes of a thread starts a
\* reply; a submit sends one create-reply request for each thread that got
\* a reply, naming the thread whose header row most recently precedes the
\* reply and the id of its first note, never two for one thread and none
\* for another thread (a submit that an exception ends has sent some of
\* them and no other).
C23_NewNote ==
    Submitted =>
        LET want == WantedReplies(outcome.rows, outcome.start, load_discussions(outcome.snap))
            got == SentReplies(log)
        IN  /\ {got[i] : i \in 1..Len(got)} \subseteq want
            /\ Len(got) = Cardinality({got[i] : i \in 1..Len(got)})
            /\ outcome.error = "" => Len(got) = Cardinality(want)

\* the rows at which the text after the sentinel is split: the sentinel,
\* every later row that is exactly the MARKER, and the end
SplitRows(rows, start) ==
    SelectSeq(Upto(Len(rows) + 1),
              LAMBDA k : \/ k = Sentinel(rows, start)
                         \/ k = Len(rows) + 1
                         \/ k > Sentinel(rows, start) /\ rows[k] = MARKER)

\* the segments of the text after the sentinel, each joined to one text
Segments(rows, start) ==
    LET at == SplitRows(rows, start)
    IN  [i \in 1..(Len(at) - 1) |-> join(<<NL>>, SubSeq(rows, at[i] + 1, at[i + 1] - 1))]

\* the create-discussion requests the segments call for: the text of every
\* segment that is not blank, in the order of the file
WantedThreads(rows, start) ==
    SelectSeq(Segments(rows, start), LAMBDA body : strip(body) # <<>>)

\* the create-discussion requests of a submit
SentThreads(l) ==
    LET qs == SelectSeq(l, LAMBDA q : q.op = "create_discussion")
    IN  [i \in 1..Len(qs) |-> qs[i].body[1]]

\* C24 (NewThread): the rows after the first sentinel row are split at
\* every row that is exactly the sentinel; a submit sends one
\* create-discussion request for each segment that holds text other than
\* white space, in the order of the file, and none for an empty or blank
\* segment (a submit that an exception ends has sent the first of them).
C24_NewThread ==
    Submitted =>
        IF outcome.error = ""
        THEN SentThreads(log) = WantedThreads(outcome.rows, outcome.start)
        ELSE Prefix(SentThreads(log), WantedThreads(outcome.rows, outcome.start))

\* C24 happens: a submit read three segments after the sentinel, skipped a
\* blank one and created two threads.
C24_Witness ==
    /\ Submitted /\ outcome.error = ""
    /\ Len(Segments(outcome.rows, outcome.start)) >= 3
    /\ Len(SentThreads(log)) = 2

\* the tag of a row that starts a note: the text between the brackets
TagOf(row) ==
    LET close == {i \in 4..(Len(row) - 1) : row[i] = "]" /\ row[i + 1] = " "}
    IN  SubSeq(row, 3, (CHOOSE i \in close : \A j \in close : i <= j) - 1)

\* the tags of the note rows that show_discussion writes, in order
ShownTags(discussions) ==
    LET rows == FileLines(show_discussion(discussions))
        at == SelectSeq(Upto(Len(rows)), LAMBDA k : AnyTag(rows[k]))
    IN  [i \in 1..Len(at) |-> TagOf(rows[at[i]])]

\* the tags the notes call for: the id of a note of the configured user, the
\* username of the author of any other note
ExpectedTags(discussions) ==
    Concat([i \in 1..Len(discussions) |->
              [j \in 1..Len(discussion_notes(discussions[i])) |->
                 IF discussion_notes(discussions[i])[j].author = GITLAB_USER
                 THEN str(discussion_notes(discussions[i])[j].id)
                 ELSE discussion_notes(discussions[i])[j].author]])

\* the bodies the rows under numeric tags hold, one for each such row
OwnBodies(rows, start) ==
    { [note |-> tag_id(rows[k]), body |-> TypedBody(rows, start, k)] :
        k \in NoteTagRows(rows, start) }

\* C29 (self-author tagging): show_discussion tags a note with its numeric
\* id exactly when its author is the configured user and with the username
\* of its author otherwise; in a submit the rows under a note tagged with a
\* username, whatever characters the username holds, are in the body of no
\* update-note request: every such request carries the rows between the
\* numeric tag of its note and the next tag.
C29_SelfAuthorTagging ==
    /\ ShownTags(load_discussions(snapshot)) = ExpectedTags(load_discussions(snapshot))
    /\ Submitted =>
          \A i \in 1..Len(SentUpdates(log)) :
              SentUpdates(log)[i] \in OwnBodies(outcome.rows, outcome.start)

\* the exceptions of a lookup that finds nothing: a thread or note the
\* snapshot does not hold, a token or reply with no thread bound
StructuralErrors == {"StopIteration", "UnboundLocalError", "KeyError"}

\* C30 (abort atomicity): a submit that ends with the exception of a
\* structural lookup (unknown thread id, unknown note id, token or reply
\* with no active thread) has sent no mutation request: none of the tokens
\* above the row, no new thread and no reply.
C30_AbortAtomicity ==
    (Submitted /\ outcome.error \in StructuralErrors) => log = <<>>

\* a step of one of the commands
CommandStep == outcome'.cmd \in {"fetch", "submit", "discuss"}

\* C27 (dry run performs no network request): in dry-run mode a command
\* sends no HTTP request, so it changes nothing on the server and takes
\* nothing from it into the cached entry or the snapshot, and it does not
\* run "git fetch" for a commit that the repository lacks.
C27_DryRun ==
    [][(DRY_RUN /\ CommandStep) =>
            /\ remote' = remote
            /\ thing' = thing
            /\ snapshot' = snapshot
            /\ ~outcome'.git_fetch]_vars

\* the HTTP half alone
C27_NoHttp ==
    [][(DRY_RUN /\ CommandStep) =>
            /\ remote' = remote
            /\ thing' = thing
            /\ snapshot' = snapshot]_vars

\* cmd_retry looked at a pipeline in its last turn
Looked == outcome.cmd = "retry" /\ outcome.pipeline # Absent

\* the pipeline of the last turn ran on another revision than the blessed one
Pushed == Looked /\ outcome.pipeline[1].sha # outcome.blessed_sha[1]

\* a turn of the loop: the step from the poll to the return or the sleep
Turn == outcome.cmd = "retry" /\ outcome.pc = "poll" /\ outcome'.pc # "poll"

\* C25 (poll termination): the loop of cmd_retry ends when the latest
\* pipeline has succeeded, when a hard failure is detected (a request fails
\* or answers nothing to look at: the exception ends the command) or when
\* the latest pipeline runs on another revision than the one seen in the
\* first turn; in every other case it sleeps and polls again.  Each turn
\* looks at the pipeline with the greatest id.
C25_PollTermination ==
    /\ []((outcome.cmd = "retry" /\ outcome.pc = "done" /\ outcome.error = "")
            => Looked /\ (outcome.pipeline[1].status = "success" \/ Pushed))
    /\ []((outcome.cmd = "retry" /\ outcome.pc = "sleep")
            => /\ outcome.error = "" /\ Looked /\ ~Pushed
               /\ outcome.pipeline[1].status # "success")
    /\ [][Turn =>
            /\ outcome'.pc \in {"done", "sleep"}
            /\ outcome'.pipeline # Absent =>
                 /\ \E i \in 1..Len(remote.pipelines) :
                        remote.pipelines[i] = outcome'.pipeline[1]
                 /\ \A i \in 1..Len(remote.pipelines) :
                        remote.pipelines[i].id <= outcome'.pipeline[1].id]_vars
    /\ (outcome.pc = "sleep") ~> (outcome.pc = "poll")

\* C25 happens: after a sleep the loop found a pipeline on another revision
\* and returned.
C25_Witness ==
    /\ Pushed /\ outcome.pc = "done" /\ outcome.error = ""
    /\ Len(remote.pipelines) >= 2

\* the retry requests of the last turn
Retried == {i \in 1..Len(log) : log[i].op = "retry"}

\* C26 (poll retry safety): every retry request of cmd_retry names the
\* pipeline the turn looked at, whose revision is the one recorded in the
\* first turn and whose status is failed or canceled; none is sent for a
\* pipeline that runs or waits, and none once another revision was seen.
\* The blessed revision is that of the pipeline of the first turn and does
\* not change afterwards.
C26_RetrySafety ==
    /\ [](\A i \in Retried :
            /\ Looked /\ ~Pushed
            /\ log[i].what_id = Some(outcome.pipeline[1].id)
            /\ outcome.pipeline[1].status \in {"failed", "canceled"})
    /\ [](Pushed => Retried = {} /\ outcome.pc = "done")
    /\ [][outcome'.blessed_sha # Absent =>
            IF outcome.blessed_sha = Absent
            THEN outcome'.pipeline # Absent
                 /\ outcome'.blessed_sha = Some(outcome'.pipeline[1].sha)
            ELSE outcome'.blessed_sha = outcome.blessed_sha]_vars

\* C26 happens: in a later turn the loop asked to retry the canceled
\* pipeline of the blessed revision, the newest of several.
C26_Witness ==
    /\ Retried # {} /\ Looked
    /\ outcome.pipeline[1].status = "canceled"
    /\ outcome.pipeline[1].id >= 2

\* ------------------------------------------------------------------------
\* parse_path (gl.py:1370-1393) and the directory layout (gl.py:235-240,
\* 276-281)
\* ------------------------------------------------------------------------
\* gl.py:33 GLDIR
GLDIR == <<"g", "l">>

\* gl.py:46 WORKING_TREE, the directory of the working tree
WORKING_TREE == <<"/", "w">>

\* the parts of a path string from character k on: the text between the
\* slashes; empty parts and "." are dropped as pathlib drops them
RECURSIVE parts_from(_, _, _)
parts_from(s, k, part) ==
    IF k > Len(s) THEN IF part \in {<<>>, <<".">>} THEN <<>> ELSE <<part>>
    ELSE IF s[k] = "/"
    THEN (IF part \in {<<>>, <<".">>} THEN <<>> ELSE <<part>>) \o parts_from(s, k + 1, <<>>)
    ELSE parts_from(s, k + 1, Append(part, s[k]))

\* pathlib.Path(s): whether it is absolute, and its parts
Path(s) == [abs |-> startswith(s, <<"/">>), parts |-> parts_from(s, 1, <<>>)]

\* p / s
path_join(p, s) ==
    IF startswith(s, <<"/">>) THEN Path(s) ELSE [p EXCEPT !.parts = @ \o Path(s).parts]

\* p.name
path_name(p) == IF p.parts = <<>> THEN <<>> ELSE p.parts[Len(p.parts)]

\* p.parent
path_parent(p) ==
    [p EXCEPT !.parts = IF @ = <<>> THEN @ ELSE SubSeq(@, 1, Len(@) - 1)]

\* p.relative_to(q): Absent for ValueError
relative_to(p, q) ==
    IF p.abs = q.abs /\ Len(q.parts) <= Len(p.parts)
       /\ SubSeq(p.parts, 1, Len(q.parts)) = q.parts
    THEN Some([abs |-> FALSE, parts |-> SubSeq(p.parts, Len(q.parts) + 1, Len(p.parts))])
    ELSE Absent

\* str(p)
path_str(p) ==
    IF p.parts = <<>> THEN IF p.abs THEN <<"/">> ELSE <<".">>
    ELSE (IF p.abs THEN <<"/">> ELSE <<>>) \o join(<<"/">>, p.parts)

\* int(s) succeeds: s is a string of decimal digits (the strings here hold
\* no sign, underscore or white space)
is_int(s) == s # <<>> /\ \A i \in 1..Len(s) : s[i] \in Digits

\* gl.py:49 DIR
DIR == path_join(Path(WORKING_TREE), GLDIR)

\* gl.py:235 branch_mrdir(branch)
branch_mrdir(branch) == path_join(DIR, branch)

\* gl.py:276 issue_dir(issue_id)
issue_dir(issue_id) == path_join(path_join(DIR, <<"i">>), str(issue_id))

\* what parse_path returns first: an issue number or a branch name, or the
\* exception that ends it
Issue(n) == [error |-> "", issue |-> Some(n), branch |-> Absent]

Branch(b) == [error |-> "", issue |-> Absent, branch |-> Some(b)]

\* gl.py:1370-1393 parse_path(path)[0] for a path that is no URL
parse_path(path) ==
    LET stripped(p) ==
            IF relative_to(p, Path(GLDIR)) = Absent THEN Branch(path_str(p))
            ELSE Branch(path_str(relative_to(p, Path(GLDIR))[1]))
        of(p) ==
            IF path_name(path_parent(p)) = <<"i">>
            THEN IF is_int(path_name(p)) THEN Issue(int(path_name(p)))
                 ELSE [error |-> "ValueError", issue |-> Absent, branch |-> Absent]
            ELSE IF ~p.abs THEN stripped(p)
            ELSE IF relative_to(p, Path(WORKING_TREE)) = Absent
            THEN [error |-> "ValueError", issue |-> Absent, branch |-> Absent]
            ELSE stripped(relative_to(p, Path(WORKING_TREE))[1])
    IN  IF \A i \in 1..Len(path) : path[i] # "/"
        THEN IF is_int(path) THEN Issue(int(path)) ELSE Branch(path)
        ELSE of(IF endswith(path, <<".", "g", "l">>)
                   \/ endswith(path, <<".", "j", "s", "o", "n">>)
                THEN path_parent(Path(path)) ELSE Path(path))

\* the parts branch names are made of
NameParts ==
    { <<"b">>, <<"c">>, <<"i">>, <<"g", "l">>, <<"7">>,
      <<"b", ".", "g", "l">>, <<"c", ".", "j", "s", "o", "n">> }

\* how many parts a branch name has at most
MaxParts == 2

\* the branch names: one part, or several with slashes between
Branches ==
    UNION { { join(<<"/">>, ps) : ps \in [1..n -> NameParts] } : n \in 1..MaxParts }

\* the issue numbers
IssueNumbers == {7, 12}

\* the forms of the path of a branch: the file in the working tree, the
\* file, the directory, the name, branch_mrdir
BranchForms(b) ==
    [worktree |-> WORKING_TREE \o <<"/">> \o GLDIR \o <<"/">> \o b
                  \o <<"/", "t", "o", "d", "o", ".", "g", "l">>,
     file |-> GLDIR \o <<"/">> \o b \o <<"/", "t", "o", "d", "o", ".", "g", "l">>,
     dir |-> GLDIR \o <<"/">> \o b \o <<"/">>,
     name |-> b,
     made |-> path_str(branch_mrdir(b))]

\* the forms of the path of an issue: the file in the working tree, the
\* file, the directory, the directory below gl, the number, issue_dir
IssueForms(n) ==
    [worktree |-> WORKING_TREE \o <<"/">> \o GLDIR \o <<"/", "i", "/">> \o str(n)
                  \o <<"/", "c", "o", "m", "m", "e", "n", "t", "s", ".", "g", "l">>,
     file |-> GLDIR \o <<"/", "i", "/">> \o str(n)
              \o <<"/", "c", "o", "m", "m", "e", "n", "t", "s", ".", "g", "l">>,
     dir |-> GLDIR \o <<"/", "i", "/">> \o str(n) \o <<"/">>,
     below |-> <<"i", "/">> \o str(n) \o <<"/">>,
     name |-> str(n),
     made |-> path_str(issue_dir(n))]

\* a command parses the path it was given for a branch or an issue
\* (gl.py:523, 728, 1590)
parses ==
    /\ \/ \E b \in Branches :
          \E form \in DOMAIN BranchForms(b) :
              outcome' = [NoOutcome("parse_path") EXCEPT
                            !.ask = Some([branch |-> Some(b), issue |-> Absent,
                                          form |-> form, path |-> BranchForms(b)[form]]),
                            !.parsed = Some(parse_path(BranchForms(b)[form]))]
       \/ \E n \in IssueNumbers :
          \E form \in DOMAIN IssueForms(n) :
              outcome' = [NoOutcome("parse_path") EXCEPT
                            !.ask = Some([branch |-> Absent, issue |-> Some(n),
                                          form |-> form, path |-> IssueForms(n)[form]]),
                            !.parsed = Some(parse_path(IssueForms(n)[form]))]
    /\ UNCHANGED <<GITHUB, DRY_RUN, what, remote, thing, snapshot, files, log, edits, steps,
                   listed, repository, drafts>>

InitPath ==
    /\ Start(World("issues", FALSE, PlainThing(FALSE), <<>>), FALSE)
    /\ repository = LocalRepo

NextPath == parses

SpecPath == InitPath /\ [][NextPath]_vars

\* a branch name that reads as nothing else: no number, no part "i" before
\* its last part, no "gl" in front, no ending of a file of the layout
PlainName(b) ==
    /\ ~is_int(b)
    /\ path_name(path_parent(Path(b))) # <<"i">>
    /\ relative_to(Path(b), Path(GLDIR)) = Absent
    /\ ~endswith(b, <<".", "g", "l">>) /\ ~endswith(b, <<".", "j", "s", "o", "n">>)

\* C28 (parse_path inverts the directory layout): for every branch name b,
\* with or without slashes, the paths <worktree>/gl/b/todo.gl,
\* gl/b/todo.gl, gl/b/, b and branch_mrdir(b) all yield b; for every issue
\* number n the paths <worktree>/gl/i/n/comments.gl, gl/i/n/comments.gl,
\* gl/i/n/, i/n/, n and issue_dir(n) all yield the integer n.
C28_ParsePathInverts ==
    (outcome.cmd = "parse_path") =>
        /\ outcome.parsed[1].error = ""
        /\ outcome.parsed[1].branch = outcome.ask[1].branch
        /\ outcome.parsed[1].issue = outcome.ask[1].issue

\* C28 for the issues and for the branch names that read as nothing else
C28_PlainNames ==
    (/\ outcome.cmd = "parse_path"
     /\ outcome.ask[1].branch # Absent => PlainName(outcome.ask[1].branch[1]))
    => /\ outcome.parsed[1].error = ""
       /\ outcome.parsed[1].branch = outcome.ask[1].branch
       /\ outcome.parsed[1].issue = outcome.ask[1].issue

\* the requests of a submit that create a thread, a reply or a review draft
Creations(l) ==
    {i \in 1..Len(l) : l[i].op \in {"create_discussion", "create_reply",
                                    "create_diff_discussion", "create_review"}}

\* a submit is run again right after a submit that an exception ended:
\* nothing was typed or fetched between the two
Resubmit == outcome.cmd = "submit" /\ outcome.error # "" /\ outcome'.cmd = "submit"

\* C31 (at-most-once delivery across a failed submit): when a submit that
\* an exception ended after it had sent requests is run again on the same
\* working and review files, it sends no request for a thread, reply or
\* review draft that the first one already created.
C31_AtMostOnce ==
    [][Resubmit =>
          \A i \in Creations(log) : \A j \in Creations(log') : log[i] # log'[j]]_vars

\* the elements of a sequence
Elements(q) == {q[i] : i \in 1..Len(q)}

\* the rows with text that show_discussion writes for a snapshot: thread
\* headers, diff context, the first and the later rows of notes
RenderedRows(discussions) ==
    {row \in Elements(FileLines(show_discussion(discussions))) : strip(row) # <<>>}

\* the rows the user typed that a submit found in the files
TypedRows == {outcome.edits[i].line : i \in 1..Len(outcome.edits)}

\* the rows of the bodies of the create-reply and create-discussion
\* requests of a submit
CreatedRows(l) ==
    UNION { Elements(split(l[i].body[1], NL)) :
            i \in {j \in 1..Len(l) : l[j].op \in {"create_reply", "create_discussion"}} }

\* C32 (bodies hold only the user's lines): no row of the body of a
\* create-reply or create-discussion request of a submit is a row with text
\* of the render of the snapshot (a thread header, a diff-context row, the
\* first or a later row of a note) unless the user typed that row.
C32_OnlyTypedLines ==
    Submitted =>
        \A row \in CreatedRows(log) :
            row \in RenderedRows(load_discussions(outcome.snap)) => row \in TypedRows

\* the rows of the bodies of the update-note, create-reply and
\* create-discussion requests of a submit
BodyRows(l) ==
    UNION { Elements(split(l[i].body[1], NL)) :
            i \in {j \in 1..Len(l) :
                    l[j].op \in {"update_note", "create_reply", "create_discussion"}} }

\* the working file that a submit read held the rows of a conflict
ConflictLeft ==
    /\ outcome.before # Absent
    /\ ~NoConflict(FileLines(outcome.before[1]))

\* C33 (conflict markers are never submitted): a submit of a working file
\* that holds the conflict-marker rows of a fetch sends no such row in the
\* body of an update-note, create-reply or create-discussion request.
C33_NoConflictMarkers ==
    Submitted /\ ConflictLeft => BodyRows(log) \cap ConflictMarkers = {}

\* ------------------------------------------------------------------------
\* The commands run one after the other, each in a process of its own that
\* is or is not in dry-run mode
\* ------------------------------------------------------------------------
\* gl.py:40, 1817-1819 main: the process of the next command takes dry-run
\* mode from the option -n and the environment
main ==
    /\ DRY_RUN' = ~DRY_RUN
    /\ outcome' = NoOutcome("main")
    /\ UNCHANGED <<GITHUB, what, remote, thing, snapshot, files, log, edits, steps, listed,
                   repository, drafts>>

\* the draft that cmd_discuss writes for a line of the reviewed file that
\* the commit left as it was (gl.py:1108-1195)
FirstDraft ==
    LET made(d) == [text |-> d.text \o Reply \o <<NL>>,
                    draft |-> [new_file |-> THE_FILE, file |-> d.file, line_type |-> " ",
                               old_line |-> 1, new_line |-> 1,
                               github_line |-> d.github_line, delta |-> d.delta,
                               position |-> d.old_line, context |-> d.context]]
    IN  made(discuss(THE_FILE, THE_FILE, " ", 1, 1))

\* an issue and a merge request with threads, fetched by no command yet;
\* on the merge request a review may have been drafted
InitFrame ==
    \E w \in {v \in Worlds : v.discussions # <<>>} :
    \E drafted \in {FALSE, w.what = "merge_requests"} :
        /\ GITHUB = w.GITHUB
        /\ DRY_RUN = FALSE
        /\ what = w.what
        /\ remote = [thing |-> w.thing, state |-> "opened",
                     discussions |-> w.discussions, next |-> 4]
        /\ thing = w.thing
        /\ snapshot = Absent
        /\ repository = LocalRepo
        /\ files = IF drafted
                   THEN [mkdir(NoFiles) EXCEPT !["review.gl"] = Some(FirstDraft.text)]
                   ELSE NoFiles
        /\ drafts = IF drafted THEN <<FirstDraft.draft>> ELSE <<>>
        /\ log = <<>>
        /\ outcome = NoOutcome("init")
        /\ edits = <<>>
        /\ steps = [submits |-> 0, typed |-> 0, remote |-> 0,
                    drafted |-> IF drafted THEN 1 ELSE 0]
        /\ listed = TRUE

\* the user's editor: a row typed below the threads of the working file,
\* above its last row, the sentinel
UserAppends ==
    /\ steps.typed < MaxEdits
    /\ files[working_path] # Absent
    /\ \E lines \in {FileLines(files[working_path][1])} :
       \E l \in Typed :
            /\ lines # <<>>
            /\ files' = [files EXCEPT ![working_path] =
                            Some(FileText(SubSeq(lines, 1, Len(lines) - 1) \o <<l>>
                                          \o SubSeq(lines, Len(lines), Len(lines))))]
            /\ edits' = Append(edits, [file |-> working_path, line |-> l,
                                       at |-> Len(lines) - 1, typed |-> TRUE])
    /\ steps' = [steps EXCEPT !.typed = @ + 1]
    /\ outcome' = NoOutcome("edit")
    /\ UNCHANGED <<GITHUB, DRY_RUN, what, remote, thing, snapshot, log, listed, repository,
                   drafts>>

NextFrame == main \/ fetch \/ fetch_open \/ cmd_submit \/ UserAppends \/ RemoteEdit

SpecFrame == InitFrame /\ [][NextFrame]_vars

\* a step of cmd_submit
SubmitStep == outcome'.cmd = "submit"

\* what submit_discussion makes of the files as they are
Compiled ==
    submit_discussion(load_discussions(snapshot), rows_of(read_files(files, is_mr)),
                      is_mr, thing, remote.thing)

\* C34 (what submit does to the working and the pristine file): when
\* submit_issue_data or submit_mr_data returns or is left by an exception
\* the pristine file is what it was, and the working file is what it was
\* or, outside dry-run mode and after submit_discussion went through the
\* rows without an exception, what the pristine file is; in dry-run mode the
\* whole command leaves every file as it was: the working and the pristine
\* file, review.gl, and the directory of an item that is no longer open.
C34_SubmitFrame ==
    [][SubmitStep =>
        /\ listed =>
            /\ outcome'.P = files[pristine_path]
            /\ outcome'.W # files[working_path] =>
                    /\ outcome'.W = files[pristine_path]
                    /\ ~DRY_RUN
                    /\ Compiled.error = ""
        /\ DRY_RUN => files' = files]_vars

\* C34 happens: outside dry-run mode a submit put the pristine file in the
\* place of a working file that differed from it.
C34_Witness ==
    /\ outcome.cmd = "submit" /\ ~DRY_RUN
    /\ outcome.before # Absent /\ outcome.W # outcome.before /\ outcome.W = outcome.P

\* C34 happens in dry-run mode: a submit of an edited working file and of a
\* drafted review issued requests and kept review.gl; a submit of an item
\* that is no longer open kept its directory.
C34_DryEdited ==
    /\ outcome.cmd = "submit" /\ DRY_RUN /\ log # <<>>
    /\ edits # <<>> /\ files["review.gl"] # Absent

C34_DryNotOpen ==
    /\ outcome.cmd = "submit" /\ DRY_RUN /\ ~listed /\ files["."] # Absent

\* a fetch of the merge request wrote its files
FetchedThreads == Fetched /\ is_mr /\ snapshot # Absent /\ files["meta.gl"] # Absent

\* the file for a thread by the resolved attribute of its first note
FileByResolved(d) ==
    IF discussion_notes(d)[1].resolved = Absent THEN "meta.gl"
    ELSE IF discussion_notes(d)[1].resolved[1] THEN "resolved.gl"
    ELSE "todo.gl"

\* the file for a thread: by the resolved attribute on GitLab; on GitHub,
\* where no comment has the attribute, todo.gl for a review comment and
\* meta.gl for an issue comment
FileOfThread(d) ==
    IF ~GITHUB THEN FileByResolved(d)
    ELSE IF discussion_notes(d)[1].commit_id # Absent THEN "todo.gl"
    ELSE "meta.gl"

\* the render of the threads of the snapshot that place(_) puts into file f
RenderOf(f, place(_)) ==
    show_discussion(SelectSeq(snapshot[1], LAMBDA d : place(d) = f))

\* the three files hold the renders of the threads that place(_) puts into
\* them, todo.gl as the fetch rendered it (the pristine file)
Partitioned(place(_)) ==
    /\ files["meta.gl"] = Some(metadata_header(thing) \o RenderOf("meta.gl", place))
    /\ files["resolved.gl"] = Some(RenderOf("resolved.gl", place))
    /\ files["pristine-todo.gl"] = Some(RenderOf("todo.gl", place) \o MARKER \o <<NL>>)

\* how many rows of the three files are the header row of the GitLab thread d
HeaderRows(d) ==
    LET count(f) == Cardinality({k \in 1..Len(FileLines(files[f][1])) :
                        /\ location_match(FileLines(files[f][1])[k])
                        /\ location_id(FileLines(files[f][1])[k]) = d.id})
    IN  count("meta.gl") + count("resolved.gl") + count("pristine-todo.gl")

C35_GitLab ==
    /\ FetchedThreads /\ ~GITHUB
    /\ \A f \in {"meta.gl", "todo.gl", "resolved.gl"} :
            \E i \in 1..Len(snapshot[1]) : FileOfThread(snapshot[1][i]) = f

ScopeIssues == {7, 12}

ScopeBranches == {"a", "b"}

\* how often an item changes on the server
MaxRevision == 1

\* the items of a kind that are open on the server rem
open_items(rem, w) == {x \in DOMAIN rem[w] : rem[w][x].open}

\* gl.py:376-384 fetch_global outside dry-run mode: the list of the open
\* items of a kind, written to the cache
fetch_global(rem, w) == Some(open_items(rem, w))

\* gl.py:387-397 load_global outside dry-run mode: the cached list, fetched
\* when there is none
load_global(rem, cache, w) == IF cache[w] = Absent THEN fetch_global(rem, w) ELSE cache[w]

\* the files that fetch_issue_data (gl.py:639-673) and fetch_mr_data
\* (gl.py:678-724) leave in the directory of an item, each marked with the
\* revision of the item it was made from
item_files(rem, w, x) ==
    Some([snapshot |-> rem[w][x].rev, pristine |-> rem[w][x].rev,
          working |-> rem[w][x].rev])

\* issues_to_fetch, were every open issue fetched whenever fetch was the
\* command that created the cached list
issues_to_fetch_first_time(rem, loaded, named_issues, named_branches) ==
    [all |-> TRUE, issues |-> fetch_global(rem, "issues")[1]]

\* gl.py:538-546 the issues that fetch goes through: the named ones when
\* the cached list exists and items were named, else every open issue
issues_to_fetch(rem, loaded, named_issues, named_branches) ==
    IF loaded # Absent /\ (named_issues # {} \/ named_branches # {})
    THEN [all |-> FALSE, issues |-> named_issues]
    ELSE [all |-> TRUE, issues |-> fetch_global(rem, "issues")[1]]

\* gl.py:527-558 fetch(branches_and_issues) outside dry-run mode, with the
\* issues and the branches of the list: the cached lists and the files of
\* the items afterwards
fetch_items(rem, cache, fs, named_issues, named_branches) ==
    LET done(loaded_issues, loaded_mrs, todo) ==
            LET refresh == ~(named_branches \subseteq loaded_mrs[1])
                mrs == IF refresh THEN fetch_global(rem, "merge_requests") ELSE loaded_mrs
            IN  [cache |->
                    [issues |-> IF todo.all THEN Some(todo.issues)
                                ELSE Some(loaded_issues[1] \cup todo.issues),
                     merge_requests |-> mrs],
                 files |->
                    [issues |-> [i \in ScopeIssues |->
                                    IF i \in todo.issues THEN item_files(rem, "issues", i)
                                    ELSE fs.issues[i]],
                     merge_requests |-> [b \in ScopeBranches |->
                                    IF b \in mrs[1] \cap named_branches
                                    THEN item_files(rem, "merge_requests", b)
                                    ELSE fs.merge_requests[b]]]]
        loaded(c) == done(c, load_global(rem, cache, "merge_requests"),
                          issues_to_fetch(rem, c, named_issues, named_branches))
    IN  loaded(load_global(rem, cache, "issues"))

\* the variables that stand for no part of the state here
ScopeIdle ==
    /\ GITHUB = FALSE /\ DRY_RUN = FALSE /\ what = "issues"
    /\ thing = Absent /\ snapshot = Absent /\ log = <<>> /\ edits = <<>>
    /\ repository = LocalRepo /\ drafts = <<>>

\* a clone in which no command was run: no cached list, no directory; the
\* items are open on the server
InitScope ==
    /\ ScopeIdle
    /\ remote = [issues |-> [i \in ScopeIssues |-> [open |-> TRUE, rev |-> 0]],
                 merge_requests |-> [b \in ScopeBranches |-> [open |-> TRUE, rev |-> 0]]]
    /\ listed = [issues |-> Absent, merge_requests |-> Absent]
    /\ files = [issues |-> [i \in ScopeIssues |-> Absent],
                merge_requests |-> [b \in ScopeBranches |-> Absent]]
    /\ outcome = NoOutcome("init")
    /\ steps = [submits |-> 0, typed |-> 0, remote |-> 0, drafted |-> 0]

\* gl.py:527 fetch with a list of issues and branches, which may be empty
fetch_list ==
    /\ \E named_issues \in SUBSET ScopeIssues :
       \E named_branches \in SUBSET ScopeBranches :
       \E r \in {fetch_items(remote, listed, files, named_issues, named_branches)} :
            /\ listed' = r.cache
            /\ files' = r.files
            /\ outcome' = [NoOutcome("fetch") EXCEPT
                            !.ask = Some([issues |-> named_issues,
                                          branches |-> named_branches])]
    /\ UNCHANGED <<GITHUB, DRY_RUN, what, remote, thing, snapshot, log, edits, steps,
                   repository, drafts>>

\* other people at work on the server: an item changes, or is closed
ItemChanges ==
    /\ steps.remote <= MaxRemoteChanges
    /\ \E w \in {"issues", "merge_requests"} :
       \E x \in DOMAIN remote[w] :
            \/ /\ remote[w][x].rev < MaxRevision
               /\ remote' = [remote EXCEPT ![w][x].rev = @ + 1]
            \/ /\ remote[w][x].open
               /\ remote' = [remote EXCEPT ![w][x].open = FALSE]
    /\ steps' = [steps EXCEPT !.remote = @ + 1]
    /\ outcome' = NoOutcome("remote")
    /\ UNCHANGED <<GITHUB, DRY_RUN, what, thing, snapshot, files, log, edits, listed,
                   repository, drafts>>

NextScope == fetch_list \/ ItemChanges

SpecScope == InitScope /\ [][NextScope]_vars

\* a fetch that was given items
FetchNamed ==
    /\ outcome'.cmd = "fetch" /\ outcome'.ask # Absent
    /\ (outcome'.ask[1].issues # {} \/ outcome'.ask[1].branches # {})

\* C36 (fetch scope): a fetch that is given a list of items that is not
\* empty leaves the working, the pristine and the snapshot file of every
\* issue and of every merge request that the list does not name as they
\* were.
C36_FetchScope ==
    [][FetchNamed =>
        /\ \A i \in ScopeIssues \ outcome'.ask[1].issues :
                files'.issues[i] = files.issues[i]
        /\ \A b \in ScopeBranches \ outcome'.ask[1].branches :
                files'.merge_requests[b] = files.merge_requests[b]]_vars

\* C36 happens: a fetch of one issue and one branch wrote their files from
\* the server and left alone an open issue and an open merge request whose
\* files are older than the server's
C36_Witness ==
    /\ outcome.cmd = "fetch"
    /\ outcome.ask = Some([issues |-> {7}, branches |-> {"a"}])
    /\ files.issues[7] = item_files(remote, "issues", 7)
    /\ files.merge_requests["a"] = item_files(remote, "merge_requests", "a")
    /\ remote.issues[12].open /\ files.issues[12] # Absent
    /\ files.issues[12] # item_files(remote, "issues", 12)
    /\ remote.merge_requests["b"].open /\ files.merge_requests["b"] # Absent
    /\ files.merge_requests["b"] # item_files(remote, "merge_requests", "b")

\* ------------------------------------------------------------------------
\* submit_review (gl.py:1203-1298) on a review.gl that the user edited
\* ------------------------------------------------------------------------
\* how many rows review.gl has
MaxReviewRows == 4

\* the rows of review.gl: the header rows of two drafts as cmd_discuss
\* writes them (gl.py:1191-1193), a row of diff context, a blank row, a row
\* of text
ReviewRows ==
    { MARKER \o <<" ">> \o THE_COMMIT \o <<" ">> \o THE_FILE \o <<":", "1", " ", " ", " ", "1">>,
      MARKER \o <<" ">> \o THE_COMMIT \o <<" ">> \o THE_FILE \o <<":", "2", " ", "+", " ", "2">>,
      <<" ", "a">>, <<>>, Reply }

\* a merge request on GitLab without threads whose review.gl the user
\* edited, in a repository that has the reviewed commit or lacks it
InitReview ==
    \E dry \in BOOLEAN :
    \E n \in 0..MaxReviewRows :
    \E rows \in [1..n -> ReviewRows] :
        /\ GITHUB = FALSE
        /\ DRY_RUN = dry
        /\ what = "merge_requests"
        /\ remote = [thing |-> PlainThing(TRUE), state |-> "opened",
                     discussions |-> <<>>, next |-> 4]
        /\ thing = PlainThing(TRUE)
        /\ snapshot = Absent
        /\ repository \in {LocalRepo, [LocalRepo EXCEPT !.commits = "nowhere"]}
        /\ files = [mkdir(NoFiles) EXCEPT !["review.gl"] = Some(FileText(rows))]
        /\ drafts = <<>>
        /\ log = <<>>
        /\ outcome = NoOutcome("init")
        /\ edits = <<>>
        /\ steps = [submits |-> 0, typed |-> 0, remote |-> 0, drafted |-> 0]
        /\ listed = TRUE

NextReview == cmd_submit

SpecReview == InitReview /\ [][NextReview]_vars

\* the header rows of the drafts
DraftHeaders(rows) ==
    SelectSeq(Upto(Len(rows)), LAMBDA k : review_match(rows[k]).ok)

\* the last row of the draft whose header is row k: the one above the next
\* header row
DraftEnd(rows, k) ==
    LET next == {j \in (k + 1)..Len(rows) : review_match(rows[j]).ok}
    IN  IF next = {} THEN Len(rows) ELSE (CHOOSE j \in next : \A i \in next : j <= i) - 1

\* the first row of the body of that draft: the one below the rows of diff
\* context and the blank rows that follow them
DraftStart(rows, k) ==
    LET last == DraftEnd(rows, k)
        text == {j \in (k + 1)..last : ~context_match(rows[j])}
        from == IF text = {} THEN last + 1 ELSE CHOOSE j \in text : \A i \in text : j <= i
        full == {j \in from..last : rows[j] # <<>>}
    IN  IF full = {} THEN last + 1 ELSE CHOOSE j \in full : \A i \in full : j <= i

\* the body of that draft: its rows, each with a line end
DraftBody(rows, k) ==
    Concat([i \in 1..(DraftEnd(rows, k) - DraftStart(rows, k) + 1) |->
                rows[DraftStart(rows, k) + i - 1] \o <<NL>>])

\* the bodies of the create-discussion requests that a submit issued for the
\* drafts
SentDrafts(l) ==
    LET qs == SelectSeq(l, LAMBDA q : q.op = "create_diff_discussion")
    IN  [i \in 1..Len(qs) |-> qs[i].body[1].body]

\* C37 (review draft compilation): on GitLab a submit that finds a
\* review.gl and ends without an exception has issued one create-discussion
\* request for each header row of review.gl, in the order of the file, with
\* the body made of the rows between the header row and the next one
\* without the rows of diff context and the blank rows at their start (the
\* rows above the first header row are in no body); review.gl is gone
\* afterwards only outside dry-run mode and when no exception ended the
\* submit.
C37_ReviewCompilation ==
    [][(SubmitStep /\ listed /\ ~GITHUB /\ files["review.gl"] # Absent) =>
        LET rows == splitlines(files["review.gl"][1])
            at == DraftHeaders(rows)
        IN  /\ outcome'.error = "" =>
                    SentDrafts(log') = [i \in 1..Len(at) |-> DraftBody(rows, at[i])]
            /\ files'["review.gl"] = Absent <=> (outcome'.error = "" /\ ~DRY_RUN)
            /\ outcome'.error # "" => SentDrafts(log') = <<>>]_vars

\* C37 happens: a submit posted two drafts, the first with the text below
\* its header row and the second with an empty body, and removed review.gl
C37_Witness ==
    /\ outcome.cmd = "submit" /\ ~DRY_RUN /\ outcome.error = ""
    /\ files["review.gl"] = Absent
    /\ Len(SentDrafts(log)) = 2
    /\ SentDrafts(log)[1] = Reply \o <<NL>>
    /\ SentDrafts(log)[2] = <<>>

\* ------------------------------------------------------------------------
\* load_global and fetch_global (gl.py:376-397), call by call
\* ------------------------------------------------------------------------
\* how many frames of the two functions the interpreter stacks before it
\* raises RecursionError (sys.getrecursionlimit(), scaled down)
MaxFrames == 6

\* the frames of the two functions on the stack
Frames == steps.load_global + steps.fetch_global

\* a clone with or without the cached lists, in either mode; no lookup runs
InitCache ==
    /\ GITHUB \in BOOLEAN /\ DRY_RUN \in BOOLEAN
    /\ what \in {"issues", "merge_requests"}
    /\ thing = Absent /\ snapshot = Absent /\ log = <<>> /\ edits = <<>>
    /\ repository = LocalRepo /\ drafts = <<>>
    /\ \E closed \in SUBSET ScopeIssues :
        remote = [issues |-> [i \in ScopeIssues |-> [open |-> i \notin closed, rev |-> 0]],
                  merge_requests |-> [b \in ScopeBranches |-> [open |-> TRUE, rev |-> 0]]]
    /\ listed \in [issues : {Absent, Some({}), Some(ScopeIssues)},
                   merge_requests : {Absent, Some(ScopeBranches)}]
    /\ files = [issues |-> [i \in ScopeIssues |-> Absent],
                merge_requests |-> [b \in ScopeBranches |-> Absent]]
    /\ outcome = NoOutcome("init")
    /\ steps = [load_global |-> 0, fetch_global |-> 0, get |-> 0]

\* a command calls load_global(w) (gl.py:401, 528-531)
lookup ==
    /\ outcome.pc \in {"", "done"}
    /\ \E w \in {"issues", "merge_requests"} : what' = w
    /\ steps' = [load_global |-> 1, fetch_global |-> 0, get |-> 0]
    /\ outcome' = [NoOutcome("load_global") EXCEPT !.pc = "load_global"]
    /\ UNCHANGED <<GITHUB, DRY_RUN, remote, thing, snapshot, files, log, edits, listed,
                   repository, drafts>>

\* the lookup ends: every frame returns the list to its caller, or is left
\* by the exception
returns(doc, error) ==
    outcome' = [outcome EXCEPT !.pc = "done", !.current = doc, !.error = error]

\* gl.py:387-397 the frame of load_global at work: the cached list when the
\* file exists, else a call of fetch_global
load_global_frame ==
    /\ outcome.pc = "load_global"
    /\ IF listed[what] # Absent
       THEN returns(listed[what], "") /\ steps' = steps
       ELSE IF Frames >= MaxFrames
       THEN returns(Absent, "RecursionError") /\ steps' = steps
       ELSE /\ outcome' = [outcome EXCEPT !.pc = "fetch_global"]
            /\ steps' = [steps EXCEPT !.fetch_global = @ + 1]
    /\ UNCHANGED <<GITHUB, DRY_RUN, what, remote, thing, snapshot, files, log, edits,
                   listed, repository, drafts>>

\* gl.py:376-384 the frame of fetch_global at work: get (gl.py:332-342)
\* returns the list of the open items, which is written to the cache, or
\* None in dry-run mode (gl.py:318, 339-340), and then load_global is called
fetch_global_frame ==
    /\ outcome.pc = "fetch_global"
    /\ IF ~DRY_RUN
       THEN /\ listed' = [listed EXCEPT ![what] = fetch_global(remote, what)]
            /\ returns(fetch_global(remote, what), "")
            /\ steps' = [steps EXCEPT !.get = @ + 1]
       ELSE IF Frames >= MaxFrames
       THEN /\ returns(Absent, "RecursionError")
            /\ steps' = [steps EXCEPT !.get = @ + 1]
            /\ listed' = listed
       ELSE /\ outcome' = [outcome EXCEPT !.pc = "load_global"]
            /\ steps' = [steps EXCEPT !.get = @ + 1, !.load_global = @ + 1]
            /\ listed' = listed
    /\ UNCHANGED <<GITHUB, DRY_RUN, what, remote, thing, snapshot, files, log, edits,
                   repository, drafts>>

NextCache == lookup \/ load_global_frame \/ fetch_global_frame

SpecCache == InitCache /\ [][NextCache]_vars

\* C38 (cache lookup terminates): in a lookup fetch_global is called at
\* most once and load_global once, whether the cache file exists or not and
\* in either mode, and the lookup does not end with RecursionError.
C38_CacheLookupTerminates ==
    outcome.cmd = "load_global" =>
        /\ steps.fetch_global <= 1
        /\ steps.load_global <= 1
        /\ outcome.error = ""

====
